---- MODULE Spec2Model ----
(***************************************************************************)
(* Model of the python-web-scraper plugin.  The QA cross-check engine      *)
(* (scripts/qa_crosscheck.py): one run of the CLI, from the two files on   *)
(* disk to the report and the process exit code.  Further down: the        *)
(* generated scrapers (templates/), the investigation and its validation   *)
(* (scripts/api_discovery.py, scripts/validate_investigation.py) and the   *)
(* output validation (scripts/validate_output.py,                          *)
(* scripts/post_scraping_hook.py), each with a specification of its own.   *)
(*                                                                         *)
(* Units.  Python floats are modelled by exact integers:                   *)
(*   - instants and deviations are in milliseconds;                        *)
(*   - a value the code rounds to two decimals (round(x, 2)) is stored in  *)
(*     hundredths (60.0 s -> 6000, 5.0 % -> 500);                          *)
(*   - data_quality_score (round(x, 1)) is stored in tenths (75.0 -> 750); *)
(*   - fractions of the thresholds are stored in percent points            *)
(*     (0.02 -> 2, 0.05 -> 5).                                             *)
(* JSON scalars are tagged strings: "null", "str:" (empty string),         *)
(* "str:..." , "list:0" (empty list), "list:1", "obj:..."; "absent" marks   *)
(* a key the object does not have.                                         *)
(***************************************************************************)
EXTENDS Integers, Sequences, FiniteSets, TLC

\* one run of qa_crosscheck.py
VARIABLES args, fs, pc, items_data, metadata_data, checks, report, stdout, exit_code

\* one run of a generated scraper (templates/api_scraper_template.py,
\* templates/browser_scraper_template.py)
VARIABLES template, sc_pc, site, page, all_items, pages_collected, outcomes,
          fetched, clock, start_time, items_output, metadata_output, sc_exit

qa_vars == <<args, fs, pc, items_data, metadata_data, checks, report, stdout, exit_code>>

scraper_vars ==
  <<template, sc_pc, site, page, all_items, pages_collected, outcomes,
    fetched, clock, start_time, items_output, metadata_output, sc_exit>>

\* one call of handle_infinite_scroll (templates/browser_scraper_template.py)
VARIABLES scroll_pc, dom_count, loads_left, collected, previous_count,
          unchanged_attempts, last_dom_count, unchanged_on_page, scrolls

scroll_vars ==
  <<scroll_pc, dom_count, loads_left, collected, previous_count,
    unchanged_attempts, last_dom_count, unchanged_on_page, scrolls>>

\* one investigation (scripts/api_discovery.py) and one run of
\* scripts/validate_investigation.py
VARIABLES inv_pc, inv_source, detected, discovered, raw_score, investigation,
          strict, check_no, check_results, all_errors, all_warnings,
          validation_report, inv_exit

investigation_vars ==
  <<inv_pc, inv_source, detected, discovered, raw_score, investigation,
    strict, check_no, check_results, all_errors, all_warnings,
    validation_report, inv_exit>>

\* one run of scripts/validate_output.py and one run of
\* scripts/post_scraping_hook.py on the same output files
VARIABLES vo_pc, pep701, vo_args, vo_files, items_report, metadata_report,
          cross_ref_errors, vo_exit, hook_pc, hook_report, hook_exit

output_vars ==
  <<vo_pc, pep701, vo_args, vo_files, items_report, metadata_report,
    cross_ref_errors, vo_exit, hook_pc, hook_report, hook_exit>>

\* the programs other than qa_crosscheck.py (fs, which the scrapers write,
\* is listed with the QA run that reads it)
other_programs == <<scraper_vars, scroll_vars, investigation_vars, output_vars>>

\* the programs that never run in a specification with the scraper
idle_with_scraper == <<scroll_vars, investigation_vars, output_vars>>

vars == <<qa_vars, other_programs>>

(***************************************************************************)
(* Bounds of the model                                                     *)
(***************************************************************************)
\* longest items list made of copies of one item
MaxItems == 5
\* longest items list mixing different items
MaxMixed == 2
\* largest total_items_found the metadata reports (besides ScenarioCounts)
MaxReported == 10

\* the counts of the documented scenarios (100 reported, 95 or 100 present)
ScenarioCounts == {95, 100}

(***************************************************************************)
(* Arithmetic helpers                                                      *)
(***************************************************************************)
Abs(x) == IF x < 0 THEN -x ELSE x

Max2(a, b) == IF a >= b THEN a ELSE b

\* Python's round(): n/d to the nearest integer, ties to even (n >= 0, d > 0)
\* (on a float an exact tie depends on the binary representation; the inputs of
\* the model produce no tie at two decimals)
RoundDiv(n, d) ==
  LET q == n \div d
      r == n % d
  IN  IF 2 * r < d THEN q
      ELSE IF 2 * r > d THEN q + 1
      ELSE IF q % 2 = 0 THEN q ELSE q + 1

(***************************************************************************)
(* QAThresholds: main() sets item_count_variance from --tolerance, the     *)
(* other fields keep their defaults.                                       *)
(***************************************************************************)
DefaultItemCountAbsolute == 3
DefaultTimestampDeviationSeconds == 60
DefaultFieldCompletenessVariance == 5

\* --tolerance values tried, in percent ("2%" is the default)
TolerancePcts == {-1, 2, 50}

QAThresholds(tolerance_pct) ==
  [ item_count_variance         |-> tolerance_pct,
    item_count_absolute         |-> DefaultItemCountAbsolute,
    timestamp_deviation_seconds |-> DefaultTimestampDeviationSeconds,
    field_completeness_variance |-> DefaultFieldCompletenessVariance ]

(***************************************************************************)
(* Paths and file names.  A path is the sequence of its components; a      *)
(* reference stored in a document is a file name (one component).          *)
(***************************************************************************)
ItemsPath == <<"output", "shop_items_20250101_0100.json">>
MetadataPath == <<"output", "shop_metadata_20250101_0100.json">>

\* pathlib's Path.name: the last component
PathName(path) == path[Len(path)]

ItemsFileRefs == {"shop_items_20250101_0100.json", "shop_items_20250101_0000.json"}
MetadataFileRefs == {"shop_metadata_20250101_0100.json", "shop_metadata_20250101_0000.json"}

(***************************************************************************)
(* Timestamps.  An ISO-8601 string is its wall-clock reading and its UTC   *)
(* offset (both ms; "Z" is offset 0); two different strings can name the   *)
(* same instant.                                                           *)
(***************************************************************************)
SessionStart == [wall |-> 100000, off |-> 0]
SessionEnd == [wall |-> 400000, off |-> 0]

\* datetime.fromisoformat(s.replace("Z", "+00:00")): the instant in ms
ParseTimestamp(ts) == ts.wall - ts.off

(***************************************************************************)
(* Items                                                                   *)
(***************************************************************************)
FieldNames == <<"title", "price", "image_urls", "description">>

\* scraped exactly at scrape_timestamp_start (the same string), every field filled
ItemAtStart ==
  [ scraped_at |-> SessionStart, title |-> "str:Widget", price |-> "obj:price",
    image_urls |-> "list:1", description |-> "str:text" ]

\* scraped exactly at scrape_timestamp_end (the same string)
ItemAtEnd ==
  [ scraped_at |-> SessionEnd, title |-> "str: ",
    price |-> "obj:price0", image_urls |-> "list:1", description |-> "str:text" ]

\* 60.000 s after the window: a deviation equal to the default tolerance
ItemAtTolerance ==
  [ scraped_at |-> [wall |-> 460000, off |-> 0], title |-> "str:Widget",
    price |-> "null", image_urls |-> "list:1", description |-> "str:text" ]

\* 60.004 s before the window: beyond the tolerance by 4 ms; no title key
ItemJustBefore ==
  [ scraped_at |-> [wall |-> 39996, off |-> 0], title |-> "absent",
    price |-> "obj:price", image_urls |-> "list:0", description |-> "str:" ]

\* 90 s after the window, written with a +01:00 offset
ItemLate ==
  [ scraped_at |-> [wall |-> 4090000, off |-> 3600000], title |-> "str:Widget",
    price |-> "obj:price", image_urls |-> "list:1", description |-> "str:text" ]

ItemKinds == {ItemAtStart, ItemAtEnd, ItemAtTolerance, ItemJustBefore, ItemLate}

Repeat(item, n) == [i \in 1..n |-> item]

\* 25 items, 22 of them with a price (88 %)
Priced22Of25 == [i \in 1..25 |-> IF i <= 22 THEN ItemAtStart ELSE ItemAtTolerance]

\* 100 items, 57 of them with a price (57 %)
Priced57Of100 == [i \in 1..100 |-> IF i <= 57 THEN ItemAtStart ELSE ItemAtTolerance]

\* 14 items, 12 of them beyond the timestamp tolerance, 2 inside the window
Late12Of14 ==
  [i \in 1..14 |-> IF i = 1 THEN ItemAtStart
                   ELSE IF i <= 7 THEN ItemLate
                   ELSE IF i = 8 THEN ItemAtEnd
                   ELSE ItemJustBefore]

ScenarioLists == {Priced22Of25, Priced57Of100, Late12Of14}

ItemLists ==
  UNION {[1..n -> ItemKinds] : n \in 0..MaxMixed}
    \cup {Repeat(k, n) : k \in ItemKinds, n \in 0..MaxItems}
    \cup {Repeat(ItemAtStart, n) : n \in ScenarioCounts}
    \cup ScenarioLists

ItemsDocs ==
  {[metadata_file |-> ref, items |-> its] : ref \in MetadataFileRefs, its \in ItemLists}

(***************************************************************************)
(* Metadata documents.  keys is the set of top-level keys present;         *)
(* field_completeness is the mapping in document order.                    *)
(***************************************************************************)
ReportedCounts == (0..MaxReported) \cup {100}

FieldCompletenessMaps ==
  { << <<"title", 100>>, <<"price", 100>>, <<"image_urls", 100>>, <<"description", 100>> >>,
    << <<"title", 100>>, <<"price", 55>>, <<"image_urls", 100>>, <<"description", 100>> >>,
    << <<"title", 100>>, <<"price", 56>>, <<"image_urls", 100>>, <<"description", 40>> >> }

\* further mappings, paired with ScenarioReportedCounts only: the documented
\* 95 % price, 62 % price, all zero, no price key, a fifth key
ScenarioFieldCompletenessMaps ==
  { << <<"title", 100>>, <<"price", 95>>, <<"image_urls", 100>>, <<"description", 100>> >>,
    << <<"title", 100>>, <<"price", 62>>, <<"image_urls", 100>>, <<"description", 100>> >>,
    << <<"title", 0>>, <<"price", 0>>, <<"image_urls", 0>>, <<"description", 0>> >>,
    << <<"title", 100>>, <<"image_urls", 100>>, <<"description", 100>> >>,
    << <<"title", 100>>, <<"price", 100>>, <<"image_urls", 100>>, <<"description", 100>>,
       <<"url", 100>> >> }

ScenarioReportedCounts == {2, 25}

AllMetadataKeys == {"scraping_session", "items_summary", "field_completeness", "output_files"}

MetadataDocs ==
  {[ keys |-> AllMetadataKeys,
     scraping_session |-> [scrape_timestamp_start |-> SessionStart,
                           scrape_timestamp_end |-> SessionEnd],
     items_summary |-> [total_items_found |-> n],
     field_completeness |-> fc,
     output_files |-> [items_file |-> ref] ] :
     n \in ReportedCounts, fc \in FieldCompletenessMaps, ref \in ItemsFileRefs}
  \cup
  {[ keys |-> AllMetadataKeys,
     scraping_session |-> [scrape_timestamp_start |-> SessionStart,
                           scrape_timestamp_end |-> SessionEnd],
     items_summary |-> [total_items_found |-> n],
     field_completeness |-> fc,
     output_files |-> [items_file |-> ref] ] :
     n \in ScenarioReportedCounts, fc \in ScenarioFieldCompletenessMaps,
     ref \in ItemsFileRefs}
  \cup
  {[ keys |-> AllMetadataKeys \ {"items_summary"},
     scraping_session |-> [scrape_timestamp_start |-> SessionStart,
                           scrape_timestamp_end |-> SessionEnd],
     items_summary |-> [total_items_found |-> 0],
     field_completeness |-> fc,
     output_files |-> [items_file |-> ref] ] :
     fc \in FieldCompletenessMaps, ref \in ItemsFileRefs}

NoItemsDoc == [metadata_file |-> "", items |-> << >>]
NoMetadataDoc ==
  [ keys |-> {},
    scraping_session |-> [scrape_timestamp_start |-> SessionStart,
                          scrape_timestamp_end |-> SessionEnd],
    items_summary |-> [total_items_found |-> 0],
    field_completeness |-> << >>,
    output_files |-> [items_file |-> ""] ]

\* what a path holds on disk: nothing, text that is not JSON, or a JSON document
ItemsFileContents ==
  {[kind |-> k, doc |-> NoItemsDoc] : k \in {"missing", "invalid_json"}}
    \cup {[kind |-> "json", doc |-> d] : d \in ItemsDocs}

MetadataFileContents ==
  {[kind |-> k, doc |-> NoMetadataDoc] : k \in {"missing", "invalid_json"}}
    \cup {[kind |-> "json", doc |-> d] : d \in MetadataDocs}

(***************************************************************************)
(* check_item_count_consistency                                            *)
(***************************************************************************)
\* faulty variant of VariancePctExceeded: divides by max(reported_count, 1)
\* instead of taking variance_pct as 0.0 when reported_count is 0
VariancePctExceededDivMax1(reported_count, actual_count, thresholds) ==
  Abs(reported_count - actual_count) * 100
    > thresholds.item_count_variance * Max2(reported_count, 1)

\* variance_pct > item_count_variance, without the division:
\* variance_pct is 0.0 when reported_count is 0, |reported - actual| / reported otherwise
VariancePctExceeded(reported_count, actual_count, thresholds) ==
  IF reported_count = 0
  THEN 0 > thresholds.item_count_variance
  ELSE Abs(reported_count - actual_count) * 100
         > thresholds.item_count_variance * reported_count

\* faulty variant of tolerance_exceeded: "or" in place of "and"
ToleranceExceededEitherGate(reported_count, actual_count, thresholds) ==
  \/ VariancePctExceeded(reported_count, actual_count, thresholds)
  \/ Abs(reported_count - actual_count) > thresholds.item_count_absolute

\* both tolerance types (percentage AND absolute) are exceeded
tolerance_exceeded(reported_count, actual_count, thresholds) ==
  /\ VariancePctExceeded(reported_count, actual_count, thresholds)
  /\ Abs(reported_count - actual_count) > thresholds.item_count_absolute

\* round(variance_pct * 100, 2), in hundredths of a percent
RoundedVariancePct(reported_count, actual_count) ==
  IF reported_count = 0 THEN 0
  ELSE RoundDiv(Abs(reported_count - actual_count) * 10000, reported_count)

check_item_count_consistency(items, metadata, thresholds) ==
  LET reported_count == metadata.items_summary.total_items_found
      actual_count == Len(items.items)
      variance_abs == Abs(reported_count - actual_count)
  IN  IF tolerance_exceeded(reported_count, actual_count, thresholds)
      THEN [ check_name |-> "item_count_consistency",
             status |-> "FAIL",
             details |-> [ reported |-> reported_count,
                           actual |-> actual_count,
                           variance_pct |-> RoundedVariancePct(reported_count, actual_count),
                           variance_abs |-> variance_abs,
                           tolerance_pct |-> thresholds.item_count_variance,
                           tolerance_abs |-> thresholds.item_count_absolute ] ]
      ELSE [ check_name |-> "item_count_consistency",
             status |-> "PASS",
             details |-> [ reported |-> reported_count,
                           actual |-> actual_count,
                           variance |-> RoundedVariancePct(reported_count, actual_count) ] ]

(***************************************************************************)
(* check_bidirectional_references                                          *)
(***************************************************************************)
\* faulty variant of check_bidirectional_references: the items -> metadata
\* direction is not checked
check_bidirectional_references_metadata_only(items, metadata, items_filepath, metadata_filepath) ==
  LET referenced_items == metadata.output_files.items_file
      actual_items_name == PathName(items_filepath)
      actual_metadata_name == PathName(metadata_filepath)
  IN  IF referenced_items # actual_items_name
      THEN [ check_name |-> "bidirectional_references",
             status |-> "FAIL",
             details |-> [ metadata_references |-> referenced_items,
                           actual_items_file |-> actual_items_name,
                           error |-> "Metadata file references wrong items file" ] ]
      ELSE [ check_name |-> "bidirectional_references",
             status |-> "PASS",
             details |-> [ items_file |-> actual_items_name,
                           metadata_file |-> actual_metadata_name ] ]

\* faulty variant of check_bidirectional_references: metadata -> items is checked
\* first
check_bidirectional_references_metadata_first(items, metadata, items_filepath, metadata_filepath) ==
  LET referenced_metadata == items.metadata_file
      actual_metadata_name == PathName(metadata_filepath)
      referenced_items == metadata.output_files.items_file
      actual_items_name == PathName(items_filepath)
  IN  IF referenced_items # actual_items_name
      THEN [ check_name |-> "bidirectional_references",
             status |-> "FAIL",
             details |-> [ metadata_references |-> referenced_items,
                           actual_items_file |-> actual_items_name,
                           error |-> "Metadata file references wrong items file" ] ]
      ELSE IF referenced_metadata # actual_metadata_name
      THEN [ check_name |-> "bidirectional_references",
             status |-> "FAIL",
             details |-> [ items_references |-> referenced_metadata,
                           actual_metadata_file |-> actual_metadata_name,
                           error |-> "Items file references wrong metadata file" ] ]
      ELSE [ check_name |-> "bidirectional_references",
             status |-> "PASS",
             details |-> [ items_file |-> actual_items_name,
                           metadata_file |-> actual_metadata_name ] ]

\* items -> metadata is checked first, then metadata -> items
check_bidirectional_references(items, metadata, items_filepath, metadata_filepath) ==
  LET referenced_metadata == items.metadata_file
      actual_metadata_name == PathName(metadata_filepath)
      referenced_items == metadata.output_files.items_file
      actual_items_name == PathName(items_filepath)
  IN  IF referenced_metadata # actual_metadata_name
      THEN [ check_name |-> "bidirectional_references",
             status |-> "FAIL",
             details |-> [ items_references |-> referenced_metadata,
                           actual_metadata_file |-> actual_metadata_name,
                           error |-> "Items file references wrong metadata file" ] ]
      ELSE IF referenced_items # actual_items_name
      THEN [ check_name |-> "bidirectional_references",
             status |-> "FAIL",
             details |-> [ metadata_references |-> referenced_items,
                           actual_items_file |-> actual_items_name,
                           error |-> "Metadata file references wrong items file" ] ]
      ELSE [ check_name |-> "bidirectional_references",
             status |-> "PASS",
             details |-> [ items_file |-> actual_items_name,
                           metadata_file |-> actual_metadata_name ] ]

(***************************************************************************)
(* check_timestamp_consistency                                             *)
(***************************************************************************)
\* faulty variant of Deviation: a late item is measured from session_start
DeviationFromStartOnly(item_timestamp, session_start, session_end) ==
  IF item_timestamp < session_start THEN session_start - item_timestamp
  ELSE IF item_timestamp > session_end THEN item_timestamp - session_start
  ELSE 0

\* the body of the loop: an item's deviation from the session window, in ms
Deviation(item_timestamp, session_start, session_end) ==
  IF item_timestamp < session_start THEN session_start - item_timestamp
  ELSE IF item_timestamp > session_end THEN item_timestamp - session_end
  ELSE 0

ItemDeviation(item, metadata) ==
  Deviation(ParseTimestamp(item.scraped_at),
            ParseTimestamp(metadata.scraping_session.scrape_timestamp_start),
            ParseTimestamp(metadata.scraping_session.scrape_timestamp_end))

\* faulty variant of MaxDeviation: the last item's deviation
LastDeviation(items, metadata) ==
  IF Len(items) = 0 THEN 0 ELSE ItemDeviation(items[Len(items)], metadata)

\* max_deviation after the loop: the largest deviation, 0 for an empty list
MaxDeviation(items, metadata) ==
  LET deviations == {0} \cup {ItemDeviation(items[i], metadata) : i \in 1..Len(items)}
  IN  CHOOSE m \in deviations : \A d \in deviations : d <= m

\* deviation > thresholds.timestamp_deviation_seconds
DeviationExceeds(deviation, thresholds) ==
  deviation > thresholds.timestamp_deviation_seconds * 1000

\* invalid_timestamps after the loop: one entry per item beyond the tolerance,
\* in items order
InvalidTimestamps(items, metadata, thresholds) ==
  LET invalid == {i \in 1..Len(items) :
                    DeviationExceeds(ItemDeviation(items[i], metadata), thresholds)}
      nth(k) == CHOOSE i \in invalid : Cardinality({j \in invalid : j <= i}) = k
  IN  [ k \in 1..Cardinality(invalid) |->
          [ item_index |-> nth(k) - 1,
            item_timestamp |-> items[nth(k)].scraped_at,
            deviation_seconds |-> RoundDiv(ItemDeviation(items[nth(k)], metadata), 10) ] ]

\* faulty variant of FirstTen: the last ten entries
LastTen(s) == IF Len(s) <= 10 THEN s ELSE SubSeq(s, Len(s) - 9, Len(s))

\* invalid_timestamps[:10]
FirstTen(s) == IF Len(s) <= 10 THEN s ELSE SubSeq(s, 1, 10)

check_timestamp_consistency(items, metadata, thresholds) ==
  LET invalid_timestamps ==
        InvalidTimestamps(items.items, metadata, thresholds)
      max_deviation == MaxDeviation(items.items, metadata)
  IN  IF invalid_timestamps # << >>
      THEN [ check_name |-> "timestamp_consistency",
             status |-> "FAIL",
             details |-> [ invalid_items |-> FirstTen(invalid_timestamps),
                           total_invalid |-> Len(invalid_timestamps),
                           max_deviation_seconds |-> RoundDiv(max_deviation, 10),
                           tolerance_seconds |-> thresholds.timestamp_deviation_seconds ] ]
      ELSE [ check_name |-> "timestamp_consistency",
             status |-> "PASS",
             details |-> [ max_deviation_seconds |-> RoundDiv(max_deviation, 10),
                           tolerance_seconds |-> thresholds.timestamp_deviation_seconds ] ]

(***************************************************************************)
(* check_field_completeness_alignment                                      *)
(***************************************************************************)
\* faulty variant of NonEmpty: a blank string and a price of amount 0 count as empty
NonEmptyAndMeaningful(value) ==
  value \notin {"null", "str:", "list:0", "str: ", "obj:price0"}

\* value not in [None, "", []]
NonEmpty(value) == value \notin {"null", "str:", "list:0"}

ItemField(item, field) ==
  CASE field = "title" -> item.title
    [] field = "price" -> item.price
    [] field = "image_urls" -> item.image_urls
    [] field = "description" -> item.description

\* item.get(field): None for a key the item does not have
ItemGet(item, field) ==
  IF ItemField(item, field) = "absent" THEN "null" ELSE ItemField(item, field)

\* non_empty_count for one of the four fields
non_empty_count(items, field) ==
  Cardinality({i \in 1..Len(items) : NonEmpty(ItemGet(items[i], field))})

\* (non_empty_count / total_items) * 100 is a product of IEEE-754 doubles.  For
\* these <<non_empty_count, total_items>> the exact percentage is an integer and
\* the double falls short of it (57 / 100 * 100 = 56.99999999999999) or exceeds
\* it (28 / 100 * 100 = 28.000000000000004); for every other pair of the lists
\* of the model the double is exact or the percentage is no integer.
PercentFallsShort == {<<29, 100>>, <<57, 100>>, <<58, 100>>}
PercentExceeds ==
  {<<7, 25>>, <<14, 25>>, <<7, 100>>, <<14, 100>>, <<28, 100>>, <<55, 100>>, <<56, 100>>}

\* the sign of (the computed actual_pct - the exact percentage)
ActualPctError(items, field) ==
  IF \A i \in 1..Len(FieldNames) : FieldNames[i] # field THEN 0
  ELSE IF <<non_empty_count(items, field), Len(items)>> \in PercentFallsShort THEN -1
  ELSE IF <<non_empty_count(items, field), Len(items)>> \in PercentExceeds THEN 1
  ELSE 0

\* actual_completeness.get(field, 0) as the numerator of a fraction over total_items
\* (in percent points): 100 * non_empty_count for the four fields, 0 for any other key
ActualCompletenessNum(items, field) ==
  IF \E i \in 1..Len(FieldNames) : FieldNames[i] = field
  THEN 100 * non_empty_count(items, field)
  ELSE 0

\* |reported_pct - actual_pct| as a numerator over total_items
DifferenceNum(items, field, reported_pct) ==
  Abs(reported_pct * Len(items) - ActualCompletenessNum(items, field))

\* the sign of (the computed difference - the exact difference)
DifferenceError(items, field, reported_pct) ==
  LET reported_num == reported_pct * Len(items)
      actual_num == 100 * non_empty_count(items, field)
      error == ActualPctError(items, field)
  IN  IF error = 0 THEN 0
      ELSE IF reported_num > actual_num THEN -error
      ELSE IF reported_num < actual_num THEN error
      ELSE 1

\* difference > thresholds.field_completeness_variance * 100, on the computed doubles
IsMismatch(items, field, reported_pct, thresholds) ==
  \/ DifferenceNum(items, field, reported_pct)
       > thresholds.field_completeness_variance * Len(items)
  \/ /\ DifferenceNum(items, field, reported_pct)
          = thresholds.field_completeness_variance * Len(items)
     /\ DifferenceError(items, field, reported_pct) > 0

\* mismatches after the first n entries of reported_completeness, in its order
RECURSIVE MismatchesUpTo(_, _, _, _)
MismatchesUpTo(items, reported_completeness, thresholds, n) ==
  IF n = 0 THEN << >>
  ELSE LET rest == MismatchesUpTo(items, reported_completeness, thresholds, n - 1)
           field == reported_completeness[n][1]
           reported_pct == reported_completeness[n][2]
       IN  IF IsMismatch(items, field, reported_pct, thresholds)
           THEN Append(rest,
                  [ field |-> field,
                    reported |-> reported_pct * 100,
                    actual |-> RoundDiv(100 * ActualCompletenessNum(items, field), Len(items)),
                    difference |->
                      RoundDiv(100 * DifferenceNum(items, field, reported_pct), Len(items)) ])
           ELSE rest

\* max_difference after the first n entries, as a numerator over total_items
RECURSIVE MaxDifferenceNumUpTo(_, _, _)
MaxDifferenceNumUpTo(items, reported_completeness, n) ==
  IF n = 0 THEN 0
  ELSE Max2(MaxDifferenceNumUpTo(items, reported_completeness, n - 1),
            DifferenceNum(items, reported_completeness[n][1], reported_completeness[n][2]))

\* faulty variant of check_field_completeness_alignment: an empty items list is
\* compared with actual percentages of 0 instead of failing at once
check_field_completeness_alignment_unguarded(items, metadata, thresholds) ==
  LET reported_completeness == metadata.field_completeness
      total_items == IF Len(items.items) = 0 THEN 1 ELSE Len(items.items)
      mismatches == MismatchesUpTo(items.items, reported_completeness, thresholds,
                                   Len(reported_completeness))
      max_difference ==
        RoundDiv(100 * MaxDifferenceNumUpTo(items.items, reported_completeness,
                                            Len(reported_completeness)), total_items)
  IN  IF Len(items.items) = 0
      THEN [ check_name |-> "field_completeness_alignment",
             status |-> IF \E n \in 1..Len(reported_completeness) :
                             reported_completeness[n][2]
                               > thresholds.field_completeness_variance
                        THEN "FAIL" ELSE "PASS",
             details |-> [ max_difference |-> 0,
                           tolerance |-> thresholds.field_completeness_variance ] ]
      ELSE IF mismatches # << >>
      THEN [ check_name |-> "field_completeness_alignment",
             status |-> "FAIL",
             details |-> [ mismatches |-> mismatches,
                           max_difference |-> max_difference,
                           tolerance |-> thresholds.field_completeness_variance ] ]
      ELSE [ check_name |-> "field_completeness_alignment",
             status |-> "PASS",
             details |-> [ max_difference |-> max_difference,
                           tolerance |-> thresholds.field_completeness_variance ] ]

check_field_completeness_alignment(items, metadata, thresholds) ==
  LET reported_completeness == metadata.field_completeness
      total_items == Len(items.items)
      mismatches == MismatchesUpTo(items.items, reported_completeness, thresholds,
                                   Len(reported_completeness))
      max_difference ==
        RoundDiv(100 * MaxDifferenceNumUpTo(items.items, reported_completeness,
                                            Len(reported_completeness)), total_items)
  IN  IF total_items = 0
      THEN [ check_name |-> "field_completeness_alignment",
             status |-> "FAIL",
             details |-> [ error |-> "No items to validate" ] ]
      ELSE IF mismatches # << >>
      THEN [ check_name |-> "field_completeness_alignment",
             status |-> "FAIL",
             details |-> [ mismatches |-> mismatches,
                           max_difference |-> max_difference,
                           tolerance |-> thresholds.field_completeness_variance ] ]
      ELSE [ check_name |-> "field_completeness_alignment",
             status |-> "PASS",
             details |-> [ max_difference |-> max_difference,
                           tolerance |-> thresholds.field_completeness_variance ] ]

(***************************************************************************)
(* The checks dict (insertion-ordered): a sequence of key/value entries    *)
(***************************************************************************)
HasKey(dict, key) == \E i \in 1..Len(dict) : dict[i].key = key

\* dict[key] for a key that is present
Get(dict, key) == dict[CHOOSE i \in 1..Len(dict) : dict[i].key = key].value

\* checks[key] = value
Put(dict, key, value) ==
  IF HasKey(dict, key)
  THEN [i \in 1..Len(dict) |->
          IF dict[i].key = key THEN [key |-> key, value |-> value] ELSE dict[i]]
  ELSE Append(dict, [key |-> key, value |-> value])

(***************************************************************************)
(* analyze_root_causes                                                     *)
(***************************************************************************)
\* faulty variant of ItemCountCauses: no cause when actual > reported
ItemCountCausesMissingOnly(dict) ==
  IF HasKey(dict, "item_count_consistency")
       /\ Get(dict, "item_count_consistency").status = "FAIL"
  THEN LET reported == Get(dict, "item_count_consistency").details.reported
           actual == Get(dict, "item_count_consistency").details.actual
       IN  IF actual < reported
           THEN << [ issue |-> "pagination_end_condition",
                     description |-> "Pagination logic stopped early (missing N items)",
                     count |-> reported - actual,
                     recommendation |-> "Review pagination end condition in scraper code" ] >>
           ELSE << >>
  ELSE << >>

\* faulty variant of ItemCountCauses: the two issues are swapped
ItemCountCausesSwapped(dict) ==
  IF HasKey(dict, "item_count_consistency")
       /\ Get(dict, "item_count_consistency").status = "FAIL"
  THEN LET reported == Get(dict, "item_count_consistency").details.reported
           actual == Get(dict, "item_count_consistency").details.actual
       IN  IF actual > reported
           THEN << [ issue |-> "pagination_end_condition",
                     description |-> "Pagination logic stopped early (missing N items)",
                     count |-> reported - actual,
                     recommendation |-> "Review pagination end condition in scraper code" ] >>
           ELSE IF actual < reported
           THEN << [ issue |-> "duplicate_items",
                     description |-> "More items scraped than expected (N extra)",
                     count |-> actual - reported,
                     recommendation |->
                       "Check for duplicate items or incorrect counting logic" ] >>
           ELSE << >>
  ELSE << >>

\* the item-count part: at most one cause
ItemCountCauses(dict) ==
  IF HasKey(dict, "item_count_consistency")
       /\ Get(dict, "item_count_consistency").status = "FAIL"
  THEN LET reported == Get(dict, "item_count_consistency").details.reported
           actual == Get(dict, "item_count_consistency").details.actual
       IN  IF actual < reported
           THEN << [ issue |-> "pagination_end_condition",
                     description |-> "Pagination logic stopped early (missing N items)",
                     count |-> reported - actual,
                     recommendation |-> "Review pagination end condition in scraper code" ] >>
           ELSE IF actual > reported
           THEN << [ issue |-> "duplicate_items",
                     description |-> "More items scraped than expected (N extra)",
                     count |-> actual - reported,
                     recommendation |->
                       "Check for duplicate items or incorrect counting logic" ] >>
           ELSE << >>
  ELSE << >>

\* completeness_check.details.get("mismatches", [])
DetailsMismatches(details) ==
  IF "mismatches" \in DOMAIN details THEN details.mismatches ELSE << >>

\* the field-completeness part: one cause per mismatch, in the list's order
SelectorCauses(dict) ==
  IF HasKey(dict, "field_completeness_alignment")
       /\ Get(dict, "field_completeness_alignment").status = "FAIL"
  THEN LET mismatches == DetailsMismatches(Get(dict, "field_completeness_alignment").details)
       IN  [ i \in 1..Len(mismatches) |->
               [ issue |-> "selector_accuracy",
                 field |-> mismatches[i].field,
                 description |-> "Selector for 'FIELD' not matching all variants",
                 recommendation |-> <<"Add fallback selector for", mismatches[i].field,
                                      "field">> ] ]
  ELSE << >>

\* faulty variant of analyze_root_causes: the causes follow the order in which the
\* checks were recorded
analyze_root_causes_in_dict_order(dict) ==
  LET position(key) == CHOOSE i \in 1..Len(dict) : dict[i].key = key
  IN  IF /\ HasKey(dict, "item_count_consistency")
         /\ HasKey(dict, "field_completeness_alignment")
         /\ position("field_completeness_alignment") < position("item_count_consistency")
      THEN SelectorCauses(dict) \o ItemCountCauses(dict)
      ELSE ItemCountCauses(dict) \o SelectorCauses(dict)

\* faulty variant of analyze_root_causes: the selector causes come first
analyze_root_causes_selectors_first(dict) == SelectorCauses(dict) \o ItemCountCauses(dict)

analyze_root_causes(dict) == ItemCountCauses(dict) \o SelectorCauses(dict)

(***************************************************************************)
(* calculate_data_quality_score (in tenths)                                *)
(***************************************************************************)
PassedCount(dict) == Cardinality({i \in 1..Len(dict) : dict[i].value.status = "PASS"})

\* faulty variant of calculate_data_quality_score: counts the FAIL checks
calculate_data_quality_score_of_failed(dict) ==
  IF Len(dict) = 0 THEN 0
  ELSE RoundDiv((Len(dict) - PassedCount(dict)) * 1000, Len(dict))

calculate_data_quality_score(dict) ==
  IF Len(dict) = 0 THEN 0
  ELSE RoundDiv(PassedCount(dict) * 1000, Len(dict))

(***************************************************************************)
(* run_qa_crosscheck, after the checks: the report                         *)
(***************************************************************************)
\* Optional[List]: None or a list
None == [present |-> FALSE, value |-> << >>]
Some(list) == [present |-> TRUE, value |-> list]

\* x if x else None
OrNone(list) == IF list # << >> THEN Some(list) ELSE None

\* faulty variant of OverallStatus: looks at the first check only
OverallStatusFirstCheckOnly(dict) ==
  IF dict[1].value.status = "FAIL" THEN "FAIL" ELSE "PASS"

\* failed_checks = [...]; overall_status = "FAIL" if failed_checks else "PASS"
OverallStatus(dict) ==
  IF \E i \in 1..Len(dict) : dict[i].value.status = "FAIL" THEN "FAIL" ELSE "PASS"

\* faulty variant of Recommendations: keeps one recommendation when there are several
RecommendationsDeduplicated(root_causes) ==
  IF Len(root_causes) > 1 THEN << root_causes[1].recommendation >>
  ELSE [i \in 1..Len(root_causes) |-> root_causes[i].recommendation]

\* [cause["recommendation"] for cause in root_causes]
Recommendations(root_causes) ==
  [i \in 1..Len(root_causes) |-> root_causes[i].recommendation]

BuildQAReport(dict) ==
  LET overall_status == OverallStatus(dict)
      analyzed == overall_status = "FAIL"
      root_causes == IF analyzed THEN analyze_root_causes(dict) ELSE << >>
      recommended_actions == Recommendations(root_causes)
  IN  [ status |-> overall_status,
        checks |-> dict,
        data_quality_score |-> calculate_data_quality_score(dict),
        root_cause_analysis |-> OrNone(root_causes),
        recommended_actions |-> OrNone(recommended_actions) ]

NoReport == [status |-> "NONE"]

(***************************************************************************)
(* Exit codes                                                              *)
(***************************************************************************)
\* faulty variant of LoadFailureExitCode: invalid JSON exits with 1
LoadFailureExitCodeAsFail(kind) == IF kind = "missing" THEN 2 ELSE 1

\* load_json_file: sys.exit(2) on FileNotFoundError and on json.JSONDecodeError
LoadFailureExitCode(kind) ==
  CASE kind = "missing" -> 2
    [] kind = "invalid_json" -> 2

\* main: sys.exit(0 if report.status == "PASS" else 1)
ReportExitCode(status) == IF status = "PASS" THEN 0 ELSE 1

\* an exception nothing catches: the interpreter prints a traceback and exits with 1
UncaughtExceptionExitCode == 1

\* exit_code while the process is still running
NotExited == -1

(***************************************************************************)
(* The programs that do not run in a specification stay idle.              *)
(***************************************************************************)
ScraperIdle ==
  /\ template = "none"
  /\ sc_pc = "idle"
  /\ site = << >>
  /\ page = 0
  /\ all_items = << >>
  /\ pages_collected = 0
  /\ outcomes = << >>
  /\ fetched = [result |-> "pending", products |-> << >>, has_next |-> "absent"]
  /\ clock = 0
  /\ start_time = 0
  /\ items_output = NoItemsDoc
  /\ metadata_output = NoMetadataDoc
  /\ sc_exit = NotExited

ScrollIdle ==
  /\ scroll_pc = "idle"
  /\ dom_count = 0
  /\ loads_left = 0
  /\ collected = 0
  /\ previous_count = 0
  /\ unchanged_attempts = 0
  /\ last_dom_count = 0
  /\ unchanged_on_page = 0
  /\ scrolls = 0

NoInvestigation ==
  [ discovered_endpoints |-> << >>, platform_detected |-> "custom",
    platform_confidence |-> "low", recommended_strategy |-> "browser",
    confidence_score |-> 0 ]

NoValidationReport ==
  [status |-> "", errors |-> << >>, warnings |-> << >>, can_generate_scraper |-> FALSE]

InvestigationIdle ==
  /\ inv_pc = "idle"
  /\ inv_source = "none"
  /\ detected = [platform |-> "custom", confidence |-> "low"]
  /\ discovered = << >>
  /\ raw_score = [hundredths |-> 0, error |-> 0]
  /\ investigation = NoInvestigation
  /\ strict = FALSE
  /\ check_no = 0
  /\ check_results = << >>
  /\ all_errors = << >>
  /\ all_warnings = << >>
  /\ validation_report = NoValidationReport
  /\ inv_exit = NotExited

NoCompleteness == << >>

NoItemsReport ==
  [ schema_passed |-> FALSE, errors |-> << >>, metadata_file_ref |-> "absent",
    field_completeness |-> NoCompleteness, quality_score |-> -1 ]

NoMetadataReport ==
  [present |-> FALSE, schema_passed |-> FALSE, items_file_ref |-> "absent"]

NoHookReport ==
  [field_completeness |-> NoCompleteness, quality_score |-> -1, error_count |-> 0]

OutputIdle ==
  /\ vo_pc = "idle"
  /\ pep701 = FALSE
  /\ vo_args = [json |-> FALSE, strict |-> FALSE, metadata |-> FALSE]
  /\ vo_files = [items |-> NoItemsDoc, items_file_ref |-> ""]
  /\ items_report = NoItemsReport
  /\ metadata_report = NoMetadataReport
  /\ cross_ref_errors = << >>
  /\ vo_exit = NotExited
  /\ hook_pc = "idle"
  /\ hook_report = NoHookReport
  /\ hook_exit = NotExited

QAIdle ==
  /\ args = [ items_file |-> ItemsPath, metadata_file |-> MetadataPath,
              thresholds |-> QAThresholds(2) ]
  /\ fs = [ items |-> [kind |-> "missing", doc |-> NoItemsDoc],
            metadata |-> [kind |-> "missing", doc |-> NoMetadataDoc] ]
  /\ pc = "not_started"
  /\ items_data = NoItemsDoc
  /\ metadata_data = NoMetadataDoc
  /\ checks = << >>
  /\ report = NoReport
  /\ stdout = << >>
  /\ exit_code = NotExited

\* every program outside `running` is idle
IdleBut(running) ==
  /\ "qa" \notin running => QAIdle
  /\ "scraper" \notin running => ScraperIdle
  /\ "scroll" \notin running => ScrollIdle
  /\ "investigation" \notin running => InvestigationIdle
  /\ "output" \notin running => OutputIdle

OtherProgramsIdle == IdleBut({"qa"})

(***************************************************************************)
(* The run                                                                 *)
(***************************************************************************)
Init ==
  /\ \E tolerance \in TolerancePcts :
       args = [ items_file |-> ItemsPath, metadata_file |-> MetadataPath,
                thresholds |-> QAThresholds(tolerance) ]
  /\ \E ic \in ItemsFileContents, mc \in MetadataFileContents :
       fs = [items |-> ic, metadata |-> mc]
  /\ pc = "start"
  /\ items_data = NoItemsDoc
  /\ metadata_data = NoMetadataDoc
  /\ checks = << >>
  /\ report = NoReport
  /\ stdout = << >>
  /\ exit_code = NotExited
  /\ OtherProgramsIdle

\* run_qa_crosscheck: items_data = load_json_file(items_file)
LoadItems ==
  /\ pc = "start"
  /\ IF fs.items.kind = "json"
     THEN /\ items_data' = fs.items.doc
          /\ pc' = "items_loaded"
          /\ UNCHANGED exit_code
     ELSE /\ exit_code' = LoadFailureExitCode(fs.items.kind)
          /\ pc' = "exited"
          /\ UNCHANGED items_data
  /\ UNCHANGED <<other_programs, args, fs, metadata_data, checks, report, stdout>>

\* run_qa_crosscheck: metadata_data = load_json_file(metadata_file)
LoadMetadata ==
  /\ pc = "items_loaded"
  /\ IF fs.metadata.kind = "json"
     THEN /\ metadata_data' = fs.metadata.doc
          /\ pc' = "loaded"
          /\ UNCHANGED exit_code
     ELSE /\ exit_code' = LoadFailureExitCode(fs.metadata.kind)
          /\ pc' = "exited"
          /\ UNCHANGED metadata_data
  /\ UNCHANGED <<other_programs, args, fs, items_data, checks, report, stdout>>

\* checks["item_count_consistency"] = ...; a metadata document without
\* items_summary raises KeyError, which nothing catches
CheckItemCount ==
  /\ pc = "loaded"
  /\ IF "items_summary" \in metadata_data.keys
     THEN /\ checks' = Put(checks, "item_count_consistency",
                           check_item_count_consistency(items_data, metadata_data,
                                                        args.thresholds))
          /\ pc' = "item_count_checked"
          /\ UNCHANGED exit_code
     ELSE /\ exit_code' = UncaughtExceptionExitCode
          /\ pc' = "exited"
          /\ UNCHANGED checks
  /\ UNCHANGED <<other_programs, args, fs, items_data, metadata_data, report, stdout>>

\* checks["bidirectional_references"] = ...
CheckBidirectionalReferences ==
  /\ pc = "item_count_checked"
  /\ checks' = Put(checks, "bidirectional_references",
                   check_bidirectional_references(items_data, metadata_data,
                                                  args.items_file, args.metadata_file))
  /\ pc' = "references_checked"
  /\ UNCHANGED <<other_programs, args, fs, items_data, metadata_data, report, stdout, exit_code>>

\* checks["timestamp_consistency"] = ...
CheckTimestamps ==
  /\ pc = "references_checked"
  /\ checks' = Put(checks, "timestamp_consistency",
                   check_timestamp_consistency(items_data, metadata_data, args.thresholds))
  /\ pc' = "timestamps_checked"
  /\ UNCHANGED <<other_programs, args, fs, items_data, metadata_data, report, stdout, exit_code>>

\* checks["field_completeness_alignment"] = ...
CheckFieldCompleteness ==
  /\ pc = "timestamps_checked"
  /\ checks' = Put(checks, "field_completeness_alignment",
                   check_field_completeness_alignment(items_data, metadata_data,
                                                      args.thresholds))
  /\ pc' = "all_checked"
  /\ UNCHANGED <<other_programs, args, fs, items_data, metadata_data, report, stdout, exit_code>>

\* run_qa_crosscheck: overall status, root causes, score, the QAReport
BuildReport ==
  /\ pc = "all_checked"
  /\ report' = BuildQAReport(checks)
  /\ pc' = "reported"
  /\ UNCHANGED <<other_programs, args, fs, items_data, metadata_data, checks, stdout, exit_code>>

\* main: print the report, exit with the code of its status
PrintAndExit ==
  /\ pc = "reported"
  /\ stdout' = Append(stdout, report)
  /\ exit_code' = ReportExitCode(report.status)
  /\ pc' = "exited"
  /\ UNCHANGED <<other_programs, args, fs, items_data, metadata_data, checks, report>>

Next ==
  \/ LoadItems
  \/ LoadMetadata
  \/ CheckItemCount
  \/ CheckBidirectionalReferences
  \/ CheckTimestamps
  \/ CheckFieldCompleteness
  \/ BuildReport
  \/ PrintAndExit

Spec == Init /\ [][Next]_vars

(***************************************************************************)
(* The four checks of run_qa_crosscheck executed in any order: each check   *)
(* is one step that stores its result under its own key.                   *)
(***************************************************************************)
AnyOrderItemLists ==
  { << >>, <<ItemAtStart>>, <<ItemJustBefore, ItemAtStart>>, <<ItemAtStart, ItemLate>>,
    Repeat(ItemAtStart, MaxItems) }

AnyOrderMetadataDocs ==
  {d \in MetadataDocs :
     /\ d.items_summary.total_items_found \in {0, 1, MaxReported}
     /\ d.field_completeness \in FieldCompletenessMaps}

InitAnyOrder ==
  /\ \E tolerance \in TolerancePcts :
       args = [ items_file |-> ItemsPath, metadata_file |-> MetadataPath,
                thresholds |-> QAThresholds(tolerance) ]
  /\ \E ic \in ItemsFileContents, mc \in MetadataFileContents :
       /\ ic.kind = "json" => ic.doc.items \in AnyOrderItemLists
       /\ mc.kind = "json" => mc.doc \in AnyOrderMetadataDocs
       /\ fs = [items |-> ic, metadata |-> mc]
  /\ pc = "start"
  /\ items_data = NoItemsDoc
  /\ metadata_data = NoMetadataDoc
  /\ checks = << >>
  /\ report = NoReport
  /\ stdout = << >>
  /\ exit_code = NotExited
  /\ OtherProgramsIdle

\* the position after a check has stored its result: the report is built once
\* all four results are there
AfterCheck(dict) == IF Len(dict) = 4 THEN "all_checked" ELSE "loaded"

AnyOrderItemCount ==
  /\ pc = "loaded"
  /\ ~ HasKey(checks, "item_count_consistency")
  /\ IF "items_summary" \in metadata_data.keys
     THEN /\ checks' = Put(checks, "item_count_consistency",
                           check_item_count_consistency(items_data, metadata_data,
                                                        args.thresholds))
          /\ pc' = AfterCheck(checks')
          /\ UNCHANGED exit_code
     ELSE /\ exit_code' = UncaughtExceptionExitCode
          /\ pc' = "exited"
          /\ UNCHANGED checks
  /\ UNCHANGED <<other_programs, args, fs, items_data, metadata_data, report, stdout>>

AnyOrderBidirectionalReferences ==
  /\ pc = "loaded"
  /\ ~ HasKey(checks, "bidirectional_references")
  /\ checks' = Put(checks, "bidirectional_references",
                   check_bidirectional_references(items_data, metadata_data,
                                                  args.items_file, args.metadata_file))
  /\ pc' = AfterCheck(checks')
  /\ UNCHANGED <<other_programs, args, fs, items_data, metadata_data, report, stdout, exit_code>>

AnyOrderTimestamps ==
  /\ pc = "loaded"
  /\ ~ HasKey(checks, "timestamp_consistency")
  /\ checks' = Put(checks, "timestamp_consistency",
                   check_timestamp_consistency(items_data, metadata_data, args.thresholds))
  /\ pc' = AfterCheck(checks')
  /\ UNCHANGED <<other_programs, args, fs, items_data, metadata_data, report, stdout, exit_code>>

AnyOrderFieldCompleteness ==
  /\ pc = "loaded"
  /\ ~ HasKey(checks, "field_completeness_alignment")
  /\ checks' = Put(checks, "field_completeness_alignment",
                   check_field_completeness_alignment(items_data, metadata_data,
                                                      args.thresholds))
  /\ pc' = AfterCheck(checks')
  /\ UNCHANGED <<other_programs, args, fs, items_data, metadata_data, report, stdout, exit_code>>

NextAnyOrder ==
  \/ LoadItems
  \/ LoadMetadata
  \/ AnyOrderItemCount
  \/ AnyOrderBidirectionalReferences
  \/ AnyOrderTimestamps
  \/ AnyOrderFieldCompleteness
  \/ BuildReport
  \/ PrintAndExit

SpecAnyOrder == InitAnyOrder /\ [][NextAnyOrder]_vars

\* the checks mapping run_qa_crosscheck builds in its fixed order
SequentialChecks(items, metadata, arguments) ==
  Put(Put(Put(Put(<< >>,
    "item_count_consistency",
      check_item_count_consistency(items, metadata, arguments.thresholds)),
    "bidirectional_references",
      check_bidirectional_references(items, metadata,
                                     arguments.items_file, arguments.metadata_file)),
    "timestamp_consistency",
      check_timestamp_consistency(items, metadata, arguments.thresholds)),
    "field_completeness_alignment",
      check_field_completeness_alignment(items, metadata, arguments.thresholds))

(***************************************************************************)
(* Properties                                                              *)
(***************************************************************************)

\* C1 as stated: the item-count check FAILs iff both
\* |reported - actual| / max(reported, 1) > item_count_variance and
\* |reported - actual| > item_count_absolute hold, and PASSes otherwise.
C1_AsStated ==
  HasKey(checks, "item_count_consistency") =>
    LET reported == metadata_data.items_summary.total_items_found
        actual == Len(items_data.items)
        difference == IF reported >= actual THEN reported - actual ELSE actual - reported
        denominator == IF reported >= 1 THEN reported ELSE 1
        both == /\ difference * 100 > args.thresholds.item_count_variance * denominator
                /\ difference > args.thresholds.item_count_absolute
    IN  Get(checks, "item_count_consistency").status = IF both THEN "FAIL" ELSE "PASS"

\* C1 amended: the item-count check FAILs iff both variance_pct > item_count_variance
\* and |reported - actual| > item_count_absolute hold, where variance_pct is
\* |reported - actual| / reported for reported > 0 and 0.0 for reported = 0, and
\* PASSes otherwise; reported 100 with 95 items at 2% / 3 FAILs with variance_pct 5.0
\* and variance_abs 5, reported 100 with 100 items PASSes with variance 0.0.
C1_ItemCountDualGate ==
  HasKey(checks, "item_count_consistency") =>
    LET reported == metadata_data.items_summary.total_items_found
        actual == Len(items_data.items)
        difference == IF reported >= actual THEN reported - actual ELSE actual - reported
        pct_gate == IF reported = 0
                    THEN 0 > args.thresholds.item_count_variance
                    ELSE difference * 100 > args.thresholds.item_count_variance * reported
        both == pct_gate /\ difference > args.thresholds.item_count_absolute
        result == Get(checks, "item_count_consistency")
    IN  /\ result.status = IF both THEN "FAIL" ELSE "PASS"
        /\ reported = 100 /\ actual = 95 /\ args.thresholds.item_count_variance = 2
             => /\ result.status = "FAIL"
                /\ result.details.variance_pct = 500
                /\ result.details.variance_abs = 5
        /\ reported = 100 /\ actual = 100
             => result.status = "PASS" /\ result.details.variance = 0

\* C1 witness: 100 reported, 95 present, default thresholds: the check has FAILed
C1_Witness ==
  /\ HasKey(checks, "item_count_consistency")
  /\ metadata_data.items_summary.total_items_found = 100
  /\ Len(items_data.items) = 95
  /\ args.thresholds.item_count_variance = 2
  /\ Get(checks, "item_count_consistency").status = "FAIL"

\* C2: the report's status is FAIL iff at least one of its checks has status FAIL,
\* and PASS iff all of them have status PASS.
C2_StatusIffAnyCheckFails ==
  report.status # "NONE" =>
    LET results == {report.checks[i].value : i \in 1..Len(report.checks)}
    IN  /\ report.status = "FAIL" <=> \E r \in results : r.status = "FAIL"
        /\ report.status = "PASS" <=> \A r \in results : r.status = "PASS"

\* C2 witness: a report that is FAIL although its first check passed
C2_Witness ==
  /\ report.status = "FAIL"
  /\ report.checks[1].value.status = "PASS"
  /\ report.checks[2].value.status = "PASS"
  /\ report.checks[3].value.status = "FAIL"

\* C3: the CLI exits with 0 when the report's status is PASS and with 1 when it is
\* FAIL; when loading either document fails (file missing or not valid JSON) it
\* exits with 2, no check has run and no report is built or printed.
C3_ExitCodes ==
  /\ pc = "exited" /\ report.status = "PASS" => exit_code = 0
  /\ pc = "exited" /\ report.status = "FAIL" => exit_code = 1
  /\ pc = "exited" /\ report.status # "NONE" => stdout = << report >>
  /\ fs.items.kind # "json" \/ fs.metadata.kind # "json" =>
       /\ checks = << >>
       /\ report.status = "NONE"
       /\ stdout = << >>
       /\ pc = "exited" => exit_code = 2

\* C3 witness: the items file loaded, the metadata file is not JSON, the process
\* has exited with 2
C3_Witness ==
  /\ pc = "exited"
  /\ fs.items.kind = "json"
  /\ fs.metadata.kind = "invalid_json"
  /\ exit_code = 2

\* C4: data_quality_score is exactly 100 x (checks with status PASS) / 4, one of
\* 0, 25, 50, 75, 100 (the score is stored in tenths).
C4_ScoreIsPassTally ==
  report.status # "NONE" =>
    LET passed == Cardinality({i \in 1..Len(report.checks) :
                                 report.checks[i].value.status = "PASS"})
    IN  /\ Len(report.checks) = 4
        /\ report.data_quality_score * 4 = 1000 * passed
        /\ report.data_quality_score \in {0, 250, 500, 750, 1000}

\* C4 witness: three checks passed, one failed, the score is 75.0
C4_Witness ==
  /\ report.status = "FAIL"
  /\ Cardinality({i \in 1..Len(report.checks) :
                    report.checks[i].value.status = "PASS"}) = 3
  /\ report.data_quality_score = 750

\* C5: root_cause_analysis and recommended_actions are both present or both
\* absent, absent whenever status is PASS, and of the same length when present.
C5_CausesAndActionsTogether ==
  report.status # "NONE" =>
    /\ report.root_cause_analysis.present <=> report.recommended_actions.present
    /\ report.status = "PASS" =>
         /\ ~ report.root_cause_analysis.present
         /\ ~ report.recommended_actions.present
    /\ report.root_cause_analysis.present =>
         Len(report.root_cause_analysis.value) = Len(report.recommended_actions.value)

\* C5 witness: a FAIL report with an item-count cause and two selector causes
C5_Witness ==
  /\ report.status = "FAIL"
  /\ report.root_cause_analysis.present
  /\ report.recommended_actions.present
  /\ Len(report.root_cause_analysis.value) = 3

\* C6 as stated: recommended_actions and root_cause_analysis are populated iff the
\* report's status is FAIL, whichever check caused it.
C6_AsStated ==
  report.status # "NONE" =>
    /\ report.recommended_actions.present <=> report.status = "FAIL"
    /\ report.root_cause_analysis.present <=> report.status = "FAIL"

\* C6 amended: recommended_actions and root_cause_analysis are populated only if
\* the report's status is FAIL, and exactly when the item-count check FAILed with
\* actual different from reported or the field-completeness check FAILed with at
\* least one mismatch; a report that FAILs only on the reference check, on the
\* timestamp check or on an empty items list carries neither.
C6_ActionsIffCountOrFieldCause ==
  report.status # "NONE" =>
    LET count_check == Get(report.checks, "item_count_consistency")
        field_check == Get(report.checks, "field_completeness_alignment")
        count_cause == /\ count_check.status = "FAIL"
                       /\ count_check.details.actual # count_check.details.reported
        field_cause == /\ field_check.status = "FAIL"
                       /\ "mismatches" \in DOMAIN field_check.details
                       /\ Len(field_check.details.mismatches) >= 1
    IN  /\ report.recommended_actions.present <=> count_cause \/ field_cause
        /\ report.root_cause_analysis.present <=> count_cause \/ field_cause
        /\ report.recommended_actions.present => report.status = "FAIL"
        /\ report.recommended_actions.present =>
             Len(report.recommended_actions.value) >= 1

\* C6 witness: a report that FAILs on the timestamp check alone and carries no
\* recommended action
C6_Witness ==
  /\ report.status = "FAIL"
  /\ Get(report.checks, "timestamp_consistency").status = "FAIL"
  /\ Get(report.checks, "item_count_consistency").status = "PASS"
  /\ Get(report.checks, "bidirectional_references").status = "PASS"
  /\ Get(report.checks, "field_completeness_alignment").status = "PASS"
  /\ ~ report.recommended_actions.present

\* C7: when metadata reports total_items_found = 0 and item_count_variance is not
\* negative, the item-count check takes variance_pct as 0.0 and returns PASS
\* however many items the items document holds.
C7_ZeroReportedPasses ==
  /\ HasKey(checks, "item_count_consistency")
  /\ metadata_data.items_summary.total_items_found = 0
  /\ args.thresholds.item_count_variance >= 0
  => /\ Get(checks, "item_count_consistency").status = "PASS"
     /\ Get(checks, "item_count_consistency").details.variance = 0
     /\ Get(checks, "item_count_consistency").details.actual = Len(items_data.items)

\* C7 witness: 0 reported, more items present than item_count_absolute, PASS
C7_Witness ==
  /\ HasKey(checks, "item_count_consistency")
  /\ metadata_data.items_summary.total_items_found = 0
  /\ args.thresholds.item_count_variance >= 0
  /\ Len(items_data.items) > args.thresholds.item_count_absolute
  /\ Get(checks, "item_count_consistency").status = "PASS"

\* C8: the reference check returns PASS iff items.metadata_file is the basename of
\* the metadata path and metadata.output_files.items_file is the basename of the
\* items path; when exactly one direction is wrong the result is FAIL and its
\* details carry only that direction's referenced value, actual name and error.
C8_BidirectionalReferences ==
  HasKey(checks, "bidirectional_references") =>
    LET result == Get(checks, "bidirectional_references")
        metadata_name == args.metadata_file[Len(args.metadata_file)]
        items_name == args.items_file[Len(args.items_file)]
        items_to_metadata == items_data.metadata_file = metadata_name
        metadata_to_items == metadata_data.output_files.items_file = items_name
    IN  /\ result.status = "PASS" <=> items_to_metadata /\ metadata_to_items
        /\ result.status = "PASS" =>
             result.details = [items_file |-> items_name, metadata_file |-> metadata_name]
        /\ ~ items_to_metadata /\ metadata_to_items =>
             /\ result.status = "FAIL"
             /\ result.details =
                  [ items_references |-> items_data.metadata_file,
                    actual_metadata_file |-> metadata_name,
                    error |-> "Items file references wrong metadata file" ]
        /\ items_to_metadata /\ ~ metadata_to_items =>
             /\ result.status = "FAIL"
             /\ result.details =
                  [ metadata_references |-> metadata_data.output_files.items_file,
                    actual_items_file |-> items_name,
                    error |-> "Metadata file references wrong items file" ]

\* C8 witness: only the items document names the wrong metadata file; FAIL
C8_Witness ==
  /\ HasKey(checks, "bidirectional_references")
  /\ items_data.metadata_file = "shop_metadata_20250101_0000.json"
  /\ metadata_data.output_files.items_file = "shop_items_20250101_0100.json"
  /\ Get(checks, "bidirectional_references").status = "FAIL"

\* C9 as stated: the timestamp check reports max_deviation_seconds equal to the
\* largest deviation over all items and FAILs iff that maximum is strictly
\* greater than timestamp_deviation_seconds.
C9_AsStated ==
  HasKey(checks, "timestamp_consistency") =>
    LET result == Get(checks, "timestamp_consistency")
        start == metadata_data.scraping_session.scrape_timestamp_start
        end == metadata_data.scraping_session.scrape_timestamp_end
        outside(i) ==
          LET t == items_data.items[i].scraped_at.wall - items_data.items[i].scraped_at.off
          IN  Max2(0, Max2((start.wall - start.off) - t, t - (end.wall - end.off)))
        largest == CHOOSE m \in {0} \cup {outside(i) : i \in 1..Len(items_data.items)} :
                     \A i \in 1..Len(items_data.items) : outside(i) <= m
    IN  /\ result.details.max_deviation_seconds * 10 = largest
        /\ result.status = "FAIL"
             <=> largest > args.thresholds.timestamp_deviation_seconds * 1000

\* C9 amended: the timestamp check reports max_deviation_seconds equal to the
\* largest deviation over all items rounded to two decimals (0 when there are no
\* items or all lie inside the window), and FAILs iff the largest deviation itself
\* is strictly greater than timestamp_deviation_seconds; a deviation exactly equal
\* to the tolerance passes.
C9_MaxDeviationRounded ==
  HasKey(checks, "timestamp_consistency") =>
    LET result == Get(checks, "timestamp_consistency")
        start == metadata_data.scraping_session.scrape_timestamp_start
        end == metadata_data.scraping_session.scrape_timestamp_end
        outside(i) ==
          LET t == items_data.items[i].scraped_at.wall - items_data.items[i].scraped_at.off
          IN  Max2(0, Max2((start.wall - start.off) - t, t - (end.wall - end.off)))
        largest == CHOOSE m \in {0} \cup {outside(i) : i \in 1..Len(items_data.items)} :
                     \A i \in 1..Len(items_data.items) : outside(i) <= m
    IN  /\ result.details.max_deviation_seconds = RoundDiv(largest, 10)
        /\ result.details.tolerance_seconds = args.thresholds.timestamp_deviation_seconds
        /\ result.status = "FAIL"
             <=> largest > args.thresholds.timestamp_deviation_seconds * 1000
        /\ largest = args.thresholds.timestamp_deviation_seconds * 1000
             => result.status = "PASS"

\* C9 witness: the largest deviation (90 s) is the first item's, the last item is
\* inside the window; FAIL with max_deviation_seconds 90.0
C9_Witness ==
  /\ HasKey(checks, "timestamp_consistency")
  /\ items_data.items = << ItemLate, ItemAtStart >>
  /\ Get(checks, "timestamp_consistency").status = "FAIL"
  /\ Get(checks, "timestamp_consistency").details.max_deviation_seconds = 9000

\* C10: an item whose scraped_at equals scrape_timestamp_start or
\* scrape_timestamp_end has deviation 0, and an item outside the window has as
\* deviation its distance to the nearer boundary (seen in max_deviation_seconds
\* when every item is that item, and in the item's invalid_items entry).
C10_DeviationFromWindow ==
  HasKey(checks, "timestamp_consistency") =>
    LET result == Get(checks, "timestamp_consistency")
        items == items_data.items
        start == metadata_data.scraping_session.scrape_timestamp_start
        end == metadata_data.scraping_session.scrape_timestamp_end
        instant(ts) == ts.wall - ts.off
        before(i) == instant(items[i].scraped_at) < instant(start)
        after(i) == instant(items[i].scraped_at) > instant(end)
        to_start(i) == Abs(instant(items[i].scraped_at) - instant(start))
        to_end(i) == Abs(instant(items[i].scraped_at) - instant(end))
        nearer(i) == IF to_start(i) <= to_end(i) THEN to_start(i) ELSE to_end(i)
        uniform == \A j \in 1..Len(items) : items[j] = items[1]
        entries == IF result.status = "FAIL" THEN result.details.invalid_items ELSE << >>
    IN  \A i \in 1..Len(items) :
          /\ items[i].scraped_at \in {start, end} =>
               /\ uniform => result.details.max_deviation_seconds = 0
               /\ uniform => result.status = "PASS"
               /\ \A k \in 1..Len(entries) : entries[k].item_index # i - 1
          /\ before(i) \/ after(i) =>
               /\ uniform => result.details.max_deviation_seconds = RoundDiv(nearer(i), 10)
               /\ \A k \in 1..Len(entries) :
                    entries[k].item_index = i - 1 =>
                      entries[k].deviation_seconds = RoundDiv(nearer(i), 10)
               /\ result.details.max_deviation_seconds >= RoundDiv(nearer(i), 10)

\* C10 witness: an item scraped at scrape_timestamp_end exactly next to one that
\* is 90 s late; only the late one is listed, with deviation 90.0
C10_Witness ==
  /\ HasKey(checks, "timestamp_consistency")
  /\ items_data.items = << ItemAtEnd, ItemLate >>
  /\ Get(checks, "timestamp_consistency").status = "FAIL"
  /\ Get(checks, "timestamp_consistency").details.total_invalid = 1
  /\ Get(checks, "timestamp_consistency").details.invalid_items[1].item_index = 1
  /\ Get(checks, "timestamp_consistency").details.invalid_items[1].deviation_seconds = 9000

\* C11: for a non-empty items list (and a field_completeness mapping of the four
\* fields) the field-completeness check FAILs iff for at least one field
\* |reported - 100 x non-empty count / total| is strictly greater than
\* field_completeness_variance x 100; a difference exactly at the tolerance passes.
C11_AsStated ==
  /\ HasKey(checks, "field_completeness_alignment")
  /\ Len(items_data.items) >= 1
  /\ Len(metadata_data.field_completeness) = 4
  /\ \A k \in 1..4 : metadata_data.field_completeness[k][1] = FieldNames[k]
  => LET items == items_data.items
         total == Len(items)
         value(i, k) == CASE k = 1 -> items[i].title
                          [] k = 2 -> items[i].price
                          [] k = 3 -> items[i].image_urls
                          [] k = 4 -> items[i].description
         filled(k) == Cardinality({i \in 1..total :
                         value(i, k) \notin {"absent", "null", "str:", "list:0"}})
         reported(k) == metadata_data.field_completeness[k][2]
         exceeds(k) ==
           LET d == reported(k) * total - 100 * filled(k)
           IN  (IF d < 0 THEN -d ELSE d)
                 > args.thresholds.field_completeness_variance * total
     IN  Get(checks, "field_completeness_alignment").status
           = IF \E k \in 1..4 : exceeds(k) THEN "FAIL" ELSE "PASS"

\* C12: on an empty items list the field-completeness check returns FAIL with
\* error "No items to validate", whatever the thresholds and the reported
\* percentages, all-zero percentages included.
C12_EmptyItemsFail ==
  HasKey(checks, "field_completeness_alignment") /\ Len(items_data.items) = 0 =>
    /\ Get(checks, "field_completeness_alignment").status = "FAIL"
    /\ Get(checks, "field_completeness_alignment").details
         = [error |-> "No items to validate"]

\* C12 witness: no items, every reported percentage is 0, the check has FAILed
C12_Witness ==
  /\ HasKey(checks, "field_completeness_alignment")
  /\ Len(items_data.items) = 0
  /\ \A k \in 1..Len(metadata_data.field_completeness) :
       metadata_data.field_completeness[k][2] = 0
  /\ Get(checks, "field_completeness_alignment").status = "FAIL"

\* C13: whenever the item-count check FAILs, the root causes hold exactly one
\* item-count cause and it comes first: pagination_end_condition with
\* reported - actual missing items when actual < reported, duplicate_items with
\* actual - reported extra items when actual > reported.
C13_OneItemCountCauseFirst ==
  report.status # "NONE"
    /\ Get(report.checks, "item_count_consistency").status = "FAIL" =>
    LET reported == metadata_data.items_summary.total_items_found
        actual == Len(items_data.items)
        item_count_issues == {"pagination_end_condition", "duplicate_items"}
    IN  /\ report.root_cause_analysis.present
        /\ LET root_causes == report.root_cause_analysis.value
           IN  /\ Len(root_causes) >= 1
               /\ actual # reported
               /\ actual < reported =>
                    /\ root_causes[1].issue = "pagination_end_condition"
                    /\ root_causes[1].count = reported - actual
               /\ actual > reported =>
                    /\ root_causes[1].issue = "duplicate_items"
                    /\ root_causes[1].count = actual - reported
               /\ \A i \in 2..Len(root_causes) :
                    root_causes[i].issue \notin item_count_issues

\* C13 witness: 100 reported, 95 present, the report's first cause is
\* pagination_end_condition with 5 missing items
C13_Witness ==
  /\ report.status = "FAIL"
  /\ metadata_data.items_summary.total_items_found = 100
  /\ Len(items_data.items) = 95
  /\ Get(report.checks, "item_count_consistency").status = "FAIL"
  /\ report.root_cause_analysis.present
  /\ report.root_cause_analysis.value[1].issue = "pagination_end_condition"
  /\ report.root_cause_analysis.value[1].count = 5

\* C14: the root causes hold one selector_accuracy cause per entry of the
\* completeness check's mismatch list, tagged with the entry's field and in the
\* list's order, after the item-count cause if there is one; recommended_actions
\* is the sequence of the causes' recommendations in the same order.
C14_SelectorCausesInOrder ==
  report.status = "FAIL" =>
    LET count_check == Get(report.checks, "item_count_consistency")
        field_check == Get(report.checks, "field_completeness_alignment")
        mismatches == IF field_check.status = "FAIL"
                           /\ "mismatches" \in DOMAIN field_check.details
                      THEN field_check.details.mismatches ELSE << >>
        root_causes == IF report.root_cause_analysis.present
                       THEN report.root_cause_analysis.value ELSE << >>
        actions == IF report.recommended_actions.present
                   THEN report.recommended_actions.value ELSE << >>
        lead == IF count_check.status = "FAIL"
                     /\ count_check.details.actual # count_check.details.reported
                THEN 1 ELSE 0
    IN  /\ Len(root_causes) = lead + Len(mismatches)
        /\ lead = 1 => root_causes[1].issue # "selector_accuracy"
        /\ \A i \in 1..Len(mismatches) :
             /\ root_causes[lead + i].issue = "selector_accuracy"
             /\ root_causes[lead + i].field = mismatches[i].field
             /\ root_causes[lead + i].recommendation
                  = <<"Add fallback selector for", mismatches[i].field, "field">>
        /\ Len(actions) = Len(root_causes)
        /\ \A i \in 1..Len(root_causes) : actions[i] = root_causes[i].recommendation

\* C14 witness: an item-count cause followed by the selector causes of price and
\* description, in the mismatch list's order
C14_Witness ==
  /\ report.status = "FAIL"
  /\ report.root_cause_analysis.present
  /\ Len(report.root_cause_analysis.value) = 3
  /\ report.root_cause_analysis.value[1].issue = "duplicate_items"
  /\ report.root_cause_analysis.value[2].field = "price"
  /\ report.root_cause_analysis.value[3].field = "description"
  /\ report.recommended_actions.value[3]
       = <<"Add fallback selector for", "description", "field">>

\* C15: for any pair of documents that load, a report is produced whose checks
\* mapping holds exactly the four keys item_count_consistency,
\* bidirectional_references, timestamp_consistency, field_completeness_alignment,
\* each mapped to the CheckResult of the same check_name, whichever checks FAILed.
C15_AsStated ==
  pc = "exited" /\ fs.items.kind = "json" /\ fs.metadata.kind = "json" =>
    /\ report.status # "NONE"
    /\ Len(report.checks) = 4
    /\ report.checks[1].key = "item_count_consistency"
    /\ report.checks[2].key = "bidirectional_references"
    /\ report.checks[3].key = "timestamp_consistency"
    /\ report.checks[4].key = "field_completeness_alignment"
    /\ \A i \in 1..4 : report.checks[i].value.check_name = report.checks[i].key

\* C17: when the metadata document parses as JSON but lacks items_summary, the
\* checks that do not read it still run and the run ends with a report holding
\* their results.
C17_AsStated ==
  /\ pc = "exited"
  /\ fs.items.kind = "json"
  /\ fs.metadata.kind = "json"
  /\ "items_summary" \notin metadata_data.keys
  => /\ report.status # "NONE"
     /\ HasKey(report.checks, "bidirectional_references")
     /\ HasKey(report.checks, "timestamp_consistency")
     /\ HasKey(report.checks, "field_completeness_alignment")

\* C18: the field-completeness check compares exactly the fields title,
\* price, image_urls, description, whatever keys field_completeness holds: a key
\* outside the four never yields a mismatch entry, and a field with no reported
\* percentage (read as 0) is still compared.
C18_AsStated ==
  HasKey(checks, "field_completeness_alignment") /\ Len(items_data.items) >= 1 =>
    LET items == items_data.items
        total == Len(items)
        fc == metadata_data.field_completeness
        mismatches == DetailsMismatches(Get(checks, "field_completeness_alignment").details)
        filled(f) == Cardinality({i \in 1..total :
                        ItemField(items[i], f) \notin {"absent", "null", "str:", "list:0"}})
        reported(f) == IF \E k \in 1..Len(fc) : fc[k][1] = f
                       THEN fc[CHOOSE k \in 1..Len(fc) : fc[k][1] = f][2]
                       ELSE 0
        exceeds(f) == Abs(reported(f) * total - 100 * filled(f))
                        > args.thresholds.field_completeness_variance * total
    IN  /\ \A i \in 1..Len(mismatches) :
             \E n \in 1..4 : mismatches[i].field = FieldNames[n]
        /\ \A n \in 1..4 :
             exceeds(FieldNames[n]) =>
               \E i \in 1..Len(mismatches) : mismatches[i].field = FieldNames[n]

\* C19: an item's field counts as non-empty iff its value is present and is
\* neither null, the empty string nor the empty sequence; a price object of
\* amount 0 and a whitespace-only title count as non-empty.  Observed through
\* the check's result: every mismatch entry of one of the four fields reports
\* the percentage of such values, and a PASS means every reported field of the
\* four is within the tolerance of that percentage.
C19_NonEmptyRule ==
  HasKey(checks, "field_completeness_alignment") /\ Len(items_data.items) >= 1 =>
    LET items == items_data.items
        total == Len(items)
        fc == metadata_data.field_completeness
        result == Get(checks, "field_completeness_alignment")
        mismatches == DetailsMismatches(result.details)
        non_empty(v) == v # "absent" /\ v \notin {"null", "str:", "list:0"}
        filled(f) == Cardinality({i \in 1..total : non_empty(ItemField(items[i], f))})
    IN  /\ \A i \in 1..Len(mismatches) :
             (\E n \in 1..4 : FieldNames[n] = mismatches[i].field) =>
               mismatches[i].actual
                 = RoundDiv(10000 * filled(mismatches[i].field), total)
        /\ result.status = "PASS" =>
             \A k \in 1..Len(fc) :
               (\E n \in 1..4 : FieldNames[n] = fc[k][1]) =>
                 Abs(fc[k][2] * total - 100 * filled(fc[k][1]))
                   <= args.thresholds.field_completeness_variance * total

\* C19 witness: every item has a whitespace-only title and a price of amount 0,
\* 100 % is reported for all four fields and the check PASSes
C19_Witness ==
  /\ HasKey(checks, "field_completeness_alignment")
  /\ Len(items_data.items) >= 1
  /\ \A i \in 1..Len(items_data.items) :
       /\ items_data.items[i].title = "str: "
       /\ items_data.items[i].price = "obj:price0"
  /\ Len(metadata_data.field_completeness) = 4
  /\ \A k \in 1..4 : metadata_data.field_completeness[k][2] = 100
  /\ Get(checks, "field_completeness_alignment").status = "PASS"
  /\ Get(checks, "field_completeness_alignment").details.max_difference = 0

\* C20: in a timestamp FAIL payload invalid_items holds the first
\* min(10, total_invalid) out-of-tolerance items in items order (strictly
\* increasing item_index, none skipped), and total_invalid counts all
\* out-of-tolerance items.
C20_FirstTenInOrder ==
  HasKey(checks, "timestamp_consistency")
    /\ Get(checks, "timestamp_consistency").status = "FAIL" =>
    LET items == items_data.items
        details == Get(checks, "timestamp_consistency").details
        invalid_items == details.invalid_items
        start == metadata_data.scraping_session.scrape_timestamp_start
        end == metadata_data.scraping_session.scrape_timestamp_end
        instant(ts) == ts.wall - ts.off
        out(i) == \/ instant(start) - instant(items[i + 1].scraped_at)
                       > args.thresholds.timestamp_deviation_seconds * 1000
                  \/ instant(items[i + 1].scraped_at) - instant(end)
                       > args.thresholds.timestamp_deviation_seconds * 1000
        out_of_tolerance == {i \in 0..(Len(items) - 1) : out(i)}
    IN  /\ details.total_invalid = Cardinality(out_of_tolerance)
        /\ Len(invalid_items)
             = IF details.total_invalid < 10 THEN details.total_invalid ELSE 10
        /\ \A j \in 1..Len(invalid_items) :
             /\ invalid_items[j].item_index \in out_of_tolerance
             /\ Cardinality({i \in out_of_tolerance : i < invalid_items[j].item_index})
                  = j - 1
             /\ invalid_items[j].item_timestamp
                  = items[invalid_items[j].item_index + 1].scraped_at

\* C20 witness: 12 of 14 items are out of tolerance, ten are listed, the seventh
\* entry is item 8 (item 7 is within the window) and the last is item 11
C20_Witness ==
  /\ HasKey(checks, "timestamp_consistency")
  /\ Get(checks, "timestamp_consistency").status = "FAIL"
  /\ Get(checks, "timestamp_consistency").details.total_invalid = 12
  /\ Len(Get(checks, "timestamp_consistency").details.invalid_items) = 10
  /\ Get(checks, "timestamp_consistency").details.invalid_items[7].item_index = 8
  /\ Get(checks, "timestamp_consistency").details.invalid_items[10].item_index = 11

\* C16: the four checks are independent: run in any order on the same documents,
\* paths and thresholds they yield the same four CheckResults, and the report
\* has the same status, data_quality_score, root causes and recommended actions
\* (and the run the same exit code) as with the fixed sequential order.
C16_OrderIndependent ==
  fs.items.kind = "json" /\ fs.metadata.kind = "json"
    /\ pc \in {"loaded", "all_checked", "reported", "exited"} =>
    IF "items_summary" \notin metadata_data.keys
    THEN /\ report = NoReport
         /\ pc = "exited" => exit_code = UncaughtExceptionExitCode
    ELSE LET sequential == SequentialChecks(items_data, metadata_data, args)
             expected == BuildQAReport(sequential)
         IN  /\ \A i \in 1..Len(checks) :
                  checks[i].value = Get(sequential, checks[i].key)
             /\ pc \in {"reported", "exited"} =>
                  /\ Len(report.checks) = 4
                  /\ \A i \in 1..4 :
                       Get(report.checks, sequential[i].key) = sequential[i].value
                  /\ report.status = expected.status
                  /\ report.data_quality_score = expected.data_quality_score
                  /\ report.root_cause_analysis = expected.root_cause_analysis
                  /\ report.recommended_actions = expected.recommended_actions
             /\ pc = "exited" => exit_code = ReportExitCode(expected.status)

\* C16 witness: the checks ran in the reverse of the sequential order and the
\* report still names the item-count cause before the selector causes
C16_Witness ==
  /\ pc = "exited"
  /\ report.status = "FAIL"
  /\ report.checks[1].key = "field_completeness_alignment"
  /\ report.checks[2].key = "timestamp_consistency"
  /\ report.checks[3].key = "bidirectional_references"
  /\ report.checks[4].key = "item_count_consistency"
  /\ report.root_cause_analysis.present
  /\ Len(report.root_cause_analysis.value) >= 2
  /\ report.root_cause_analysis.value[1].issue = "pagination_end_condition"
  /\ report.root_cause_analysis.value[2].issue = "selector_accuracy"

\* C21: when both references are wrong at once, the reference check returns a
\* single FAIL whose details describe only the items -> metadata mismatch; the
\* metadata -> items mismatch is not reported.
C21_FirstMismatchOnly ==
  /\ HasKey(checks, "bidirectional_references")
  /\ items_data.metadata_file # args.metadata_file[Len(args.metadata_file)]
  /\ metadata_data.output_files.items_file # args.items_file[Len(args.items_file)]
  => LET result == Get(checks, "bidirectional_references")
     IN  /\ result.status = "FAIL"
         /\ DOMAIN result.details = {"items_references", "actual_metadata_file", "error"}
         /\ result.details.items_references = items_data.metadata_file
         /\ result.details.actual_metadata_file
              = args.metadata_file[Len(args.metadata_file)]
         /\ result.details.error = "Items file references wrong metadata file"

\* C21 witness: both documents name the wrong file and the check has FAILed
C21_Witness ==
  /\ HasKey(checks, "bidirectional_references")
  /\ items_data.metadata_file = "shop_metadata_20250101_0000.json"
  /\ metadata_data.output_files.items_file = "shop_items_20250101_0000.json"
  /\ Get(checks, "bidirectional_references").status = "FAIL"
  /\ "metadata_references" \notin DOMAIN Get(checks, "bidirectional_references").details

(***************************************************************************)
(* The generated scrapers (templates/api_scraper_template.py with          *)
(* PLATFORM = "shopify", templates/browser_scraper_template.py with        *)
(* PAGINATION_TYPE "none"): one run of scrape_all, from the first request  *)
(* to the two files in output/, followed by a QA run on those files.       *)
(*                                                                         *)
(* A site is the sequence of the pages its API serves; a page is the list  *)
(* of its products and its "has_next" key ("absent", "true" or "false").   *)
(* The browser scraper sees the products of the first page as the item     *)
(* containers of the document.                                             *)
(***************************************************************************)
\* api_scraper_template.py: MAX_RETRIES
MAX_RETRIES == 3

\* longest site, in pages
MaxPages == 3

\* "full": every field; "free": price 0 and an empty description;
\* "unpriced": no variants / no price element, no description;
\* "untitled": no title
ProductKinds == {"full", "free", "unpriced", "untitled"}

PageKinds ==
  { [products |-> <<"full", "unpriced">>, has_next |-> "absent"],
    [products |-> <<"free">>, has_next |-> "true"],
    [products |-> <<"full">>, has_next |-> "false"],
    [products |-> <<"untitled">>, has_next |-> "absent"],
    [products |-> << >>, has_next |-> "absent"] }

Sites == UNION {[1..n -> PageKinds] : n \in 0..MaxPages}

\* the API's answer for a page number: past the last page, no products
Response(s, page_num) ==
  IF page_num <= Len(s) THEN s[page_num]
  ELSE [products |-> << >>, has_next |-> "absent"]

\* what one requests.get + raise_for_status + response.json() can do
RequestOutcomes == {"ok", "request_exception", "other_exception"}

\* a fetch_page that falls through to `return {}` after the last failure
AfterRequestException_return_empty(attempt) ==
  IF attempt = MAX_RETRIES - 1 THEN "return_empty" ELSE "retry"

\* fetch_page's except clause on attempt number `attempt` (0-based)
AfterRequestException(attempt) ==
  IF attempt = MAX_RETRIES - 1 THEN "raise" ELSE "retry"

\* ScrapedItem(...).model_dump() for one product, as the API scraper's
\* extract_items builds it; "untitled" fails validation (title min_length=1)
ApiScrapedItem(kind, now) ==
  [ scraped_at |-> [wall |-> now, off |-> 0],
    title |-> "str:Widget",
    price |-> CASE kind = "full" -> "obj:price"
                [] kind = "free" -> "obj:price0"
                [] OTHER -> "null",
    image_urls |-> IF kind = "full" THEN "list:1" ELSE "list:0",
    description |-> IF kind = "full" THEN "str:text" ELSE "str:" ]

\* the same for the browser scraper's extract_item: a missing description
\* element leaves description None
BrowserScrapedItem(kind, now) ==
  [ scraped_at |-> [wall |-> now, off |-> 0],
    title |-> "str:Widget",
    price |-> CASE kind = "full" -> "obj:price"
                [] kind = "free" -> "obj:price0"
                [] OTHER -> "null",
    image_urls |-> IF kind = "full" THEN "list:1" ELSE "list:0",
    description |-> CASE kind = "full" -> "str:text"
                      [] kind = "free" -> "str:"
                      [] OTHER -> "null" ]

\* the products that validate, in order
Titled(products) == SelectSeq(products, LAMBDA k : k # "untitled")

\* extract_items(data): items whose construction raises are skipped
extract_items(data, now) ==
  LET kept == Titled(data.products)
  IN  [i \in 1..Len(kept) |-> ApiScrapedItem(kept[i], now)]

\* scrape_page(page): the same over the item containers of the document
scrape_page(containers, now) ==
  LET kept == Titled(containers)
  IN  [i \in 1..Len(kept) |-> BrowserScrapedItem(kept[i], now)]

\* check_has_next_page: the "has_next" key if present, else whether the
\* page listed any product
check_has_next_page(data) ==
  IF data.has_next # "absent" THEN data.has_next = "true"
  ELSE Len(data.products) > 0

\* Python truthiness of a dumped field value
Truthy(v) == v \notin {"null", "str:", "list:0", "absent"}

\* the templates' calculate_field_completeness: per field, the number of
\* truthy values and the number of items (the percentage is count/total*100,
\* and 0 for an empty list)
TemplateFieldCompleteness(items) ==
  [i \in 1..Len(FieldNames) |->
     [ field |-> FieldNames[i],
       count |-> Cardinality({j \in 1..Len(items) : Truthy(items[j][FieldNames[i]])}),
       total |-> Len(items) ]]

\* PaginationInfo(total_pages=page - 1 if page > 1 else 1)
TotalPages(page_num) == IF page_num > 1 THEN page_num - 1 ELSE 1

\* start_time of the modelled runs, ms
ScrapeStart == SessionStart.wall

\* ScrapingSession.source_url is an HttpUrl: model_dump() keeps it a Url object
SourceUrl == "Url:https://shop.example"

\* json.dump's default encoder accepts str, numbers, bool, None, list and
\* dict; anything else raises TypeError
JsonSerializable(v) == v # SourceUrl

\* MetadataOutput(...).model_dump()
MetadataOutputDump(items, page_num, start, end, method) ==
  [ keys |-> AllMetadataKeys \cup {"pagination_info", "investigation_notes"},
    scraping_session |-> [ source_url |-> SourceUrl,
                           scrape_timestamp_start |-> [wall |-> start, off |-> 0],
                           scrape_timestamp_end |-> [wall |-> end, off |-> 0],
                           duration_ms |-> end - start,
                           scraping_method |-> method ],
    pagination_info |->
      \* the browser scraper passes total_pages=None, written here as 0
      [total_pages |-> IF method = "api" THEN TotalPages(page_num) ELSE 0],
    items_summary |-> [total_items_found |-> Len(items)],
    field_completeness |-> TemplateFieldCompleteness(items),
    output_files |-> [items_file |-> PathName(ItemsPath)] ]

InitScraper ==
  /\ template \in {"api", "browser"}
  /\ site \in Sites
  /\ template = "browser" => Len(site) = 1
  /\ sc_pc = IF template = "api" THEN "fetch" ELSE "goto"
  /\ page = 1
  /\ all_items = << >>
  /\ pages_collected = 0
  /\ outcomes = << >>
  /\ fetched = [result |-> "pending", products |-> << >>, has_next |-> "absent"]
  /\ clock = ScrapeStart
  /\ start_time = ScrapeStart
  /\ items_output = NoItemsDoc
  /\ metadata_output = NoMetadataDoc
  /\ sc_exit = NotExited
  /\ IdleBut({"scraper"})

\* fetch_page: one iteration of `for attempt in range(MAX_RETRIES)`.  The
\* attempt number is the number of requests this call has already made.
\* An exception that leaves fetch_page is caught by scrape_all's
\* `except Exception: break`.
FetchRequest ==
  /\ sc_pc = "fetch"
  /\ Len(outcomes) < MAX_RETRIES
  /\ \E outcome \in RequestOutcomes :
       /\ outcomes' = Append(outcomes, outcome)
       /\ clock' = clock + 1
       /\ CASE outcome = "ok" ->
                 /\ fetched' = [ result |-> "returned",
                                 products |-> Response(site, page).products,
                                 has_next |-> Response(site, page).has_next ]
                 /\ sc_pc' = "extract"
            [] outcome = "request_exception"
                 /\ AfterRequestException(Len(outcomes)) = "retry" ->
                 /\ sc_pc' = "fetch"
                 /\ UNCHANGED fetched
            [] outcome = "request_exception"
                 /\ AfterRequestException(Len(outcomes)) = "raise" ->
                 /\ fetched' = [fetched EXCEPT !.result = "raised"]
                 /\ sc_pc' = "loop_done"
            [] outcome = "request_exception"
                 /\ AfterRequestException(Len(outcomes)) = "return_empty" ->
                 /\ fetched' = [ result |-> "returned", products |-> << >>,
                                 has_next |-> "absent" ]
                 /\ sc_pc' = "extract"
            [] outcome = "other_exception" ->
                 /\ fetched' = [fetched EXCEPT !.result = "propagated"]
                 /\ sc_pc' = "loop_done"
  /\ UNCHANGED <<template, site, page, all_items, pages_collected, start_time,
                 items_output, metadata_output, sc_exit, qa_vars,
                 idle_with_scraper>>

\* scrape_all: the rest of the loop body after data = fetch_page(page)
ExtractPage ==
  /\ sc_pc = "extract"
  /\ LET items == extract_items(fetched, clock)
     IN  IF items = << >>
         THEN /\ sc_pc' = "loop_done"
              /\ UNCHANGED <<all_items, pages_collected, page, outcomes, fetched>>
         ELSE /\ all_items' = all_items \o items
              /\ pages_collected' = pages_collected + 1
              /\ IF ~ check_has_next_page(fetched)
                 THEN /\ sc_pc' = "loop_done"
                      /\ UNCHANGED <<page, outcomes, fetched>>
                 ELSE /\ page' = page + 1
                      /\ outcomes' = << >>
                      /\ fetched' = [fetched EXCEPT !.result = "pending"]
                      /\ sc_pc' = "fetch"
  /\ UNCHANGED <<template, site, clock, start_time, items_output,
                 metadata_output, sc_exit, qa_vars, idle_with_scraper>>

\* browser scrape_all: page.goto(TARGET_URL), then all_items = scrape_page(page)
BrowseSinglePage ==
  /\ sc_pc = "goto"
  /\ clock' = clock + 1
  /\ all_items' = scrape_page(site[1].products, clock')
  /\ pages_collected' = IF all_items' = << >> THEN 0 ELSE 1
  /\ sc_pc' = "loop_done"
  /\ UNCHANGED <<template, site, page, outcomes, fetched, start_time,
                 items_output, metadata_output, sc_exit, qa_vars,
                 idle_with_scraper>>

\* scrape_all after the loop: end_time, the file names, the two output objects
BuildOutputs ==
  /\ sc_pc = "loop_done"
  /\ items_output' = [metadata_file |-> PathName(MetadataPath), items |-> all_items]
  /\ metadata_output' = MetadataOutputDump(all_items, page, start_time, clock, template)
  /\ sc_pc' = "built"
  /\ UNCHANGED <<template, site, page, all_items, pages_collected, outcomes,
                 fetched, clock, start_time, sc_exit, qa_vars,
                 idle_with_scraper>>

\* json.dump(items_output.model_dump(), f): every value is a str, a number,
\* None, a list or a dict
WriteItems ==
  /\ sc_pc = "built"
  /\ fs' = [fs EXCEPT !.items = [kind |-> "json", doc |-> items_output]]
  /\ sc_pc' = "items_written"
  /\ UNCHANGED <<template, site, page, all_items, pages_collected, outcomes,
                 fetched, clock, start_time, items_output, metadata_output,
                 sc_exit, args, pc, items_data, metadata_data,
                 checks, report, stdout, exit_code, idle_with_scraper>>

\* json.dump(metadata_output.model_dump(), f): open(path, "w") creates the
\* file, the encoder writes up to the first value it cannot serialize and
\* raises TypeError; __main__ reports the fatal error and exits with 1
WriteMetadata ==
  /\ sc_pc = "items_written"
  /\ IF JsonSerializable(metadata_output.scraping_session.source_url)
     THEN /\ fs' = [fs EXCEPT !.metadata = [kind |-> "json", doc |-> metadata_output]]
          /\ sc_exit' = 0
     ELSE /\ fs' = [fs EXCEPT !.metadata = [kind |-> "invalid_json", doc |-> NoMetadataDoc]]
          /\ sc_exit' = 1
  /\ sc_pc' = "exited"
  /\ UNCHANGED <<template, site, page, all_items, pages_collected, outcomes,
                 fetched, clock, start_time, items_output, metadata_output,
                 args, pc, items_data, metadata_data, checks, report, stdout,
                 exit_code, idle_with_scraper>>

\* qa_crosscheck.py is started on the two files of the run
StartQA ==
  /\ sc_pc = "exited"
  /\ pc = "not_started"
  /\ pc' = "start"
  /\ UNCHANGED <<other_programs, args, fs, items_data, metadata_data, checks,
                 report, stdout, exit_code>>

NextScraper ==
  \/ FetchRequest
  \/ ExtractPage
  \/ BrowseSinglePage
  \/ BuildOutputs
  \/ WriteItems
  \/ WriteMetadata
  \/ StartQA
  \/ LoadItems
  \/ LoadMetadata

SpecScraper == InitScraper /\ [][NextScraper]_vars

\* C24: fetch_page makes at most MAX_RETRIES = 3 requests for one page; it
\* returns the JSON of the first successful attempt without issuing further
\* requests, retries only after a request exception, and re-raises the
\* exception of the third failed attempt instead of returning a result.
C24_AtMostThreeRequests ==
  template = "api" =>
    /\ Len(outcomes) <= MAX_RETRIES
    /\ \A i \in 1..Len(outcomes) :
         /\ i < Len(outcomes) => outcomes[i] = "request_exception"
         /\ outcomes[i] = "ok" =>
              /\ i = Len(outcomes)
              /\ fetched.result = "returned"
              /\ fetched.products = Response(site, page).products
              /\ fetched.has_next = Response(site, page).has_next
    /\ fetched.result = "returned" => outcomes[Len(outcomes)] = "ok"
    /\ (Len(outcomes) = MAX_RETRIES /\ outcomes[MAX_RETRIES] = "request_exception")
         => fetched.result = "raised"
    /\ (sc_pc = "fetch" /\ outcomes # << >>)
         => outcomes[Len(outcomes)] = "request_exception"

\* C24 witness: three request exceptions in a row on the second page, re-raised
C24_Witness ==
  /\ template = "api"
  /\ page = 2
  /\ outcomes = <<"request_exception", "request_exception", "request_exception">>
  /\ fetched.result = "raised"

\* C25: in the API scraper the total_pages of the metadata's pagination_info
\* equals the number of pages from which items were collected (at least 1),
\* whichever way the pagination loop ended.
C25_AsStated ==
  (template = "api" /\ sc_pc \in {"built", "items_written", "exited"})
    => metadata_output.pagination_info.total_pages
         = (IF pages_collected > 1 THEN pages_collected ELSE 1)

\* C22: for every scrape in which a template's scrape_all collects at least
\* one item, the items/metadata pair it writes passes all four QA
\* cross-checks under default thresholds: the QA run on the pair ends with
\* four PASS results and exit code 0.
C22_AsStated ==
  (Len(all_items) >= 1 /\ sc_pc = "exited" /\ pc = "exited")
    => /\ exit_code = 0
       /\ Len(checks) = 4
       /\ \A i \in 1..Len(checks) : checks[i].value.status = "PASS"

(***************************************************************************)
(* handle_infinite_scroll (templates/browser_scraper_template.py): the     *)
(* document holds dom_count item containers; a scroll to the bottom may    *)
(* load one more while the site has any left (loads_left).  Counts stand   *)
(* for the lists: collected is len(all_items).                             *)
(***************************************************************************)
\* handle_infinite_scroll: max_unchanged
max_unchanged == 3

\* most item containers in the document at the start
MaxDom == 2
\* most items a site loads by scrolling
MaxLoads == 2
\* most iterations of the loop that are followed
MaxScrolls == 7

InitScroll ==
  /\ scroll_pc = "loop"
  /\ dom_count \in 0..MaxDom
  /\ loads_left \in 0..MaxLoads
  /\ collected = 0
  /\ previous_count = 0
  /\ unchanged_attempts = 0
  /\ last_dom_count = 0
  /\ unchanged_on_page = 0
  /\ scrolls = 0
  /\ IdleBut({"scroll"})

\* one iteration of `while unchanged_attempts < max_unchanged`: scrape_page
\* returns an item for every container now in the document, all_items grows
\* by all of them, the page is scrolled, and len(all_items) is compared with
\* its value one iteration earlier.  last_dom_count and unchanged_on_page
\* record what the page itself did: the number of consecutive iterations
\* that found as many containers as the iteration before.
ScrollIteration ==
  /\ scroll_pc = "loop"
  /\ unchanged_attempts < max_unchanged
  /\ scrolls < MaxScrolls
  /\ LET current_count == collected + dom_count
     IN  /\ collected' = current_count
         /\ unchanged_attempts' =
              IF current_count = previous_count THEN unchanged_attempts + 1 ELSE 0
         /\ previous_count' = current_count
  /\ \E loaded \in 0..(IF loads_left > 0 THEN 1 ELSE 0) :
       /\ dom_count' = dom_count + loaded
       /\ loads_left' = loads_left - loaded
  /\ unchanged_on_page' = IF dom_count = last_dom_count THEN unchanged_on_page + 1 ELSE 0
  /\ last_dom_count' = dom_count
  /\ scrolls' = scrolls + 1
  /\ UNCHANGED <<scroll_pc, qa_vars, scraper_vars, investigation_vars,
                 output_vars>>

\* the loop condition fails: return all_items
ScrollReturn ==
  /\ scroll_pc = "loop"
  /\ unchanged_attempts >= max_unchanged
  /\ scroll_pc' = "returned"
  /\ UNCHANGED <<dom_count, loads_left, collected, previous_count,
                 unchanged_attempts, last_dom_count, unchanged_on_page, scrolls,
                 qa_vars, scraper_vars, investigation_vars,
                 output_vars>>

NextScroll == ScrollIteration \/ ScrollReturn

SpecScroll == InitScroll /\ [][NextScroll]_vars

\* C23: handle_infinite_scroll terminates: once scrolling no longer loads new
\* items on the page, the loop exits after 3 consecutive scroll attempts
\* during which the item count is unchanged; after three such attempts the
\* loop condition is false or the function has returned.
C23_AsStated ==
  unchanged_on_page >= max_unchanged
    => (scroll_pc = "returned" \/ unchanged_attempts >= max_unchanged)

(***************************************************************************)
(* Investigation (scripts/api_discovery.py) and its validation             *)
(* (scripts/validate_investigation.py).  A report is either read from a    *)
(* file (any schema-valid InvestigationReport) or produced by              *)
(* investigate_url.  An endpoint is its confidence level.  A confidence    *)
(* score is in hundredths; the float returned by                           *)
(* calculate_confidence_score also carries the sign of its rounding error  *)
(* (0.1 + 0.2 is 0.30000000000000004: hundredths 30, error 1).             *)
(***************************************************************************)
\* longest list of discovered endpoints
MaxEndpoints == 2

ConfidenceLevels == {"high", "medium", "low"}

EndpointLists == UNION {[1..n -> ConfidenceLevels] : n \in 0..MaxEndpoints}

\* what detect_platform can return: "custom" comes with "low", a known
\* platform with "high" or "medium"
DetectedPlatforms ==
  {[platform |-> "custom", confidence |-> "low"]}
    \cup {[platform |-> p, confidence |-> c] :
            p \in {"shopify", "wordpress"}, c \in {"high", "medium"}}

\* models.py: the members of ScrapingStrategy
ScrapingStrategyMembers == {"API", "BROWSER"}

\* models.py: the fields of DiscoveredEndpoint
DiscoveredEndpointFields ==
  { "url", "method", "response_type", "confidence", "tested", "status_code",
    "sample_fields", "pagination_detected" }

\* confidence_score values of the reports read from a file, in hundredths
ConfidenceScores == {0, 29, 30, 59, 60, 100}

\* the schema-valid reports read from a file
InvestigationReports ==
  {[ discovered_endpoints |-> eps, platform_detected |-> p,
     platform_confidence |-> c, recommended_strategy |-> st,
     confidence_score |-> sc ] :
     eps \in EndpointLists, p \in {"shopify", "wordpress", "custom"},
     c \in ConfidenceLevels, st \in {"api", "browser"}, sc \in ConfidenceScores}

\* a platform_scores table that gives nothing for a "low" platform
PlatformScore_low_is_zero(level) ==
  CASE level = "high" -> 30
    [] level = "medium" -> 20
    [] OTHER -> 0

\* platform_scores.get(platform_confidence, 0.1), in hundredths
PlatformScore(level) ==
  CASE level = "high" -> 30
    [] level = "medium" -> 20
    [] OTHER -> 10

\* the score added for the discovered endpoints, in hundredths
EndpointScore(endpoints) ==
  IF \E i \in 1..Len(endpoints) : endpoints[i] = "high" THEN 60
  ELSE IF \E i \in 1..Len(endpoints) : endpoints[i] = "medium" THEN 40
  ELSE IF endpoints # << >> THEN 20
  ELSE 0

\* the sign of (a/100 + b/100 computed in binary64) - (a + b)/100:
\* 0.1 + 0.2 and 0.2 + 0.4 come out one ulp high, 0.3 + 0.6 one ulp low
FloatSumError(a, b) ==
  IF <<a, b>> \in {<<10, 20>>, <<20, 40>>} THEN 1
  ELSE IF <<a, b>> = <<30, 60>> THEN -1
  ELSE 0

\* calculate_confidence_score
calculate_confidence_score(endpoints, platform_confidence) ==
  IF endpoints = << >> THEN [hundredths |-> 0, error |-> 0]
  ELSE LET p == PlatformScore(platform_confidence)
           e == EndpointScore(endpoints)
       IN  IF p + e > 100 THEN [hundredths |-> 100, error |-> 0]
           ELSE [hundredths |-> p + e, error |-> FloatSumError(p, e)]

\* round(score, 2): the nearest two-decimal value, in hundredths
RoundTwoDecimals(score) == score.hundredths

\* score < bound/100 for a float with a rounding error
FloatBelow(score, bound) ==
  score.hundredths < bound \/ (score.hundredths = bound /\ score.error < 0)

\* score > bound/100 for a float with a rounding error
FloatAbove(score, bound) ==
  score.hundredths > bound \/ (score.hundredths = bound /\ score.error > 0)

\* the outcome of a check: (True, warnings), (False, errors) or an exception
Valid(messages) == [outcome |-> "valid", messages |-> messages]
Invalid(messages) == [outcome |-> "invalid", messages |-> messages]
Raised(exception) == [outcome |-> "raised", messages |-> <<exception>>]

\* check_api_endpoints: a non-empty endpoint list reaches `ep.sample_response`
check_api_endpoints(r) ==
  IF r.discovered_endpoints = << >>
  THEN Valid(<<"No API endpoints discovered">>)
  ELSE IF "sample_response" \notin DiscoveredEndpointFields
       THEN Raised("AttributeError: sample_response")
       ELSE Valid(IF (\A i \in 1..Len(r.discovered_endpoints) :
                        r.discovered_endpoints[i] # "high")
                     /\ r.recommended_strategy = "api"
                  THEN <<"no HIGH confidence endpoints">>
                  ELSE << >>)

\* check_platform_detection: for a Shopify report every endpoint is tested
\* with `"/products.json" in ep.url`, and ep.url is a Url object, not a str
check_platform_detection(r) ==
  IF r.platform_detected = "custom"
  THEN Valid(<<"Platform detected as 'custom'">>)
  ELSE IF r.platform_detected = "shopify"
       THEN IF r.discovered_endpoints # << >>
            THEN Raised("TypeError: argument of type Url is not iterable")
            ELSE Valid(<<"no Shopify-specific endpoints found">>)
       ELSE Valid(<< >>)

\* check_confidence_score
check_confidence_score(r) ==
  IF r.confidence_score < 30
  THEN Invalid(<<"Investigation confidence score too low">>)
  ELSE IF r.confidence_score < 60
       THEN Valid(<<"Investigation confidence score is moderate">>)
       ELSE Valid(<< >>)

\* check_strategy_alignment: the second condition names
\* ScrapingStrategy.BROWSER_SCRAPING
check_strategy_alignment(r) ==
  IF "BROWSER_SCRAPING" \notin ScrapingStrategyMembers
  THEN Raised("AttributeError: BROWSER_SCRAPING")
  ELSE Valid(IF r.recommended_strategy = "api" /\ r.discovered_endpoints = << >>
             THEN <<"Recommended strategy is API but no endpoints discovered">>
             ELSE << >>)

CheckNames ==
  <<"API Endpoints", "Platform Detection", "Confidence Score", "Strategy Alignment">>

RunCheckFunc(n, r) ==
  CASE n = 1 -> check_api_endpoints(r)
    [] n = 2 -> check_platform_detection(r)
    [] n = 3 -> check_confidence_score(r)
    [] n = 4 -> check_strategy_alignment(r)

\* f"[{check_name}] {msg}" for each message
Prefixed(name, messages) ==
  [i \in 1..Len(messages) |-> [check |-> name, text |-> messages[i]]]

InitInvestigation ==
  /\ inv_source \in {"file", "investigate_url"}
  /\ IF inv_source = "file"
     THEN /\ investigation \in InvestigationReports
          /\ detected = [platform |-> "custom", confidence |-> "low"]
          /\ discovered = << >>
          /\ inv_pc = "validate"
     ELSE /\ investigation = NoInvestigation
          /\ detected \in DetectedPlatforms
          /\ discovered \in EndpointLists
          /\ inv_pc = "investigate"
  /\ raw_score = [hundredths |-> 0, error |-> 0]
  /\ strict \in BOOLEAN
  /\ check_no = 1
  /\ check_results = << >>
  /\ all_errors = << >>
  /\ all_warnings = << >>
  /\ validation_report = NoValidationReport
  /\ inv_exit = NotExited
  /\ IdleBut({"investigation"})

\* investigate_url, phase 6 and the returned report
Investigate ==
  /\ inv_pc = "investigate"
  /\ raw_score' = calculate_confidence_score(discovered, detected.confidence)
  /\ investigation' =
       [ discovered_endpoints |-> discovered,
         platform_detected |-> detected.platform,
         platform_confidence |-> detected.confidence,
         recommended_strategy |-> IF discovered # << >> THEN "api" ELSE "browser",
         confidence_score |-> RoundTwoDecimals(raw_score') ]
  /\ inv_pc' = "validate"
  /\ UNCHANGED <<inv_source, detected, discovered, strict, check_no,
                 check_results, all_errors, all_warnings, validation_report,
                 inv_exit, qa_vars, scraper_vars, scroll_vars, output_vars>>

\* validate_for_scraper_generation: one iteration of the loop over the checks
RunCheck ==
  /\ inv_pc = "validate"
  /\ check_no <= Len(CheckNames)
  /\ LET result == RunCheckFunc(check_no, investigation)
         name == CheckNames[check_no]
     IN  /\ check_results' = Append(check_results, result)
         /\ CASE result.outcome = "valid" ->
                   /\ all_warnings' = all_warnings \o Prefixed(name, result.messages)
                   /\ UNCHANGED all_errors
              [] result.outcome = "invalid" ->
                   /\ all_errors' = all_errors \o Prefixed(name, result.messages)
                   /\ UNCHANGED all_warnings
              [] result.outcome = "raised" ->
                   /\ all_errors' = Append(all_errors,
                        [check |-> name, text |-> "Validation check failed"])
                   /\ UNCHANGED all_warnings
  /\ check_no' = check_no + 1
  /\ UNCHANGED <<inv_pc, inv_source, detected, discovered, raw_score,
                 investigation, strict, validation_report, inv_exit,
                 qa_vars, scraper_vars, scroll_vars, output_vars>>

\* validate_for_scraper_generation: the validation report
BuildValidationReport ==
  /\ inv_pc = "validate"
  /\ check_no > Len(CheckNames)
  /\ validation_report' =
       [ status |-> IF all_errors = << >> THEN "PASS" ELSE "FAIL",
         errors |-> all_errors,
         warnings |-> all_warnings,
         can_generate_scraper |-> Len(all_errors) = 0 ]
  /\ inv_pc' = "validated"
  /\ UNCHANGED <<inv_source, detected, discovered, raw_score, investigation,
                 strict, check_no, check_results, all_errors, all_warnings,
                 inv_exit, qa_vars, scraper_vars, scroll_vars, output_vars>>

\* main: --strict turns the warnings into errors; exit 0 if valid, else 1
ValidatorMain ==
  /\ inv_pc = "validated"
  /\ LET is_valid == validation_report.can_generate_scraper
         turned == strict /\ validation_report.warnings # << >>
     IN  /\ validation_report' =
               IF turned
               THEN [ validation_report EXCEPT
                        !.status = "FAIL",
                        !.errors = validation_report.errors \o validation_report.warnings,
                        !.warnings = << >> ]
               ELSE validation_report
         /\ inv_exit' = IF is_valid /\ ~ turned THEN 0 ELSE 1
  /\ inv_pc' = "exited"
  /\ UNCHANGED <<inv_source, detected, discovered, raw_score, investigation,
                 strict, check_no, check_results, all_errors, all_warnings,
                 qa_vars, scraper_vars, scroll_vars, output_vars>>

NextInvestigation ==
  \/ Investigate
  \/ RunCheck
  \/ BuildValidationReport
  \/ ValidatorMain

SpecInvestigation == InitInvestigation /\ [][NextInvestigation]_vars

\* C26: validate_for_scraper_generation rejects a schema-valid report (status
\* FAIL, can_generate_scraper false) only when its confidence_score is below
\* 0.3; every report with confidence_score >= 0.3 gets status PASS in
\* non-strict mode.
C26_AsStated ==
  (inv_pc \in {"validated", "exited"} /\ ~ strict /\ investigation.confidence_score >= 30)
    => /\ validation_report.status = "PASS"
       /\ validation_report.can_generate_scraper

\* C27: for reports produced by investigate_url, calculate_confidence_score
\* returns 0.0 when the endpoint list is empty and a value between 0.3 and
\* 0.9 otherwise, and the 30% minimum of check_confidence_score rejects the
\* report iff no endpoint was discovered.
C27_RejectsIffNoEndpoint ==
  (inv_source = "investigate_url" /\ inv_pc # "investigate") =>
    /\ discovered = << >> => raw_score = [hundredths |-> 0, error |-> 0]
    /\ discovered # << >> =>
         /\ ~ FloatBelow(raw_score, 30)
         /\ ~ FloatAbove(raw_score, 90)
    /\ Len(check_results) >= 3 =>
         (check_results[3].outcome = "invalid" <=> discovered = << >>)

\* C27 witness: a "low" platform with one "low" endpoint: 0.1 + 0.2, reported
\* as 0.3 and accepted by the confidence check
C27_Witness ==
  /\ inv_source = "investigate_url"
  /\ detected.confidence = "low"
  /\ discovered = <<"low">>
  /\ raw_score = [hundredths |-> 30, error |-> 1]
  /\ investigation.confidence_score = 30
  /\ Len(check_results) >= 3
  /\ check_results[3].outcome = "valid"

(***************************************************************************)
(* Output validation: scripts/validate_output.py (with --metadata, --json, *)
(* --strict) and scripts/post_scraping_hook.py, run on the same items      *)
(* file.  A percentage (count / total) * 100 is kept as its count and      *)
(* total; a quality score (round(x, 1)) is in tenths.                      *)
(***************************************************************************)
\* longest items list given to the two scripts
MaxOutputItems == 2

\* every field filled, but the description is one blank
ItemBlankDescription == [ItemAtStart EXCEPT !.description = "str: "]

\* ScrapedItem(**item): title is a required str of min_length 1; price,
\* description and image_urls are optional
SchemaValid(item) == item.title \notin {"absent", "null", "str:"}

\* ItemJustBefore has no title: not schema-valid
OutputItemKinds ==
  {ItemAtStart, ItemAtEnd, ItemAtTolerance, ItemBlankDescription, ItemJustBefore}

OutputItemLists == UNION {[1..n -> OutputItemKinds] : n \in 0..MaxOutputItems}

\* validate_output.py counts a string if it is truthy and not blank, a price
\* if its amount is > 0, a list if it is not empty
CountedByValidateOutput(field, v) ==
  CASE field = "price" -> v = "obj:price"
    [] field = "image_urls" -> v = "list:1"
    [] OTHER -> v \notin {"absent", "null", "str:", "str: "}

\* post_scraping_hook.py counts every truthy value
CountedByHook(field, v) == Truthy(v)

\* the rule of one of the two scripts
Counted(script, field, v) ==
  IF script = "validate_output" THEN CountedByValidateOutput(field, v)
  ELSE CountedByHook(field, v)

\* the four (count, total) pairs under the rule of a script
FieldCompletenessBy(script, items) ==
  [i \in 1..Len(FieldNames) |->
     [ field |-> FieldNames[i],
       count |-> Cardinality({j \in 1..Len(items) :
                   Counted(script, FieldNames[i], ItemGet(items[j], FieldNames[i]))}),
       total |-> Len(items) ]]

\* validate_output.calculate_field_completeness
vo_calculate_field_completeness(items) ==
  FieldCompletenessBy("validate_output", items)

\* post_scraping_hook.calculate_field_completeness
hook_calculate_field_completeness(items) ==
  FieldCompletenessBy("post_scraping_hook", items)

\* calculate_quality_score (both scripts): round(title * 0.3 + price * 0.3 +
\* image_urls * 0.2 + description * 0.2, 1), in tenths
calculate_quality_score(fc) ==
  IF fc[1].total = 0 THEN 0
  ELSE RoundDiv(10 * (30 * fc[1].count + 30 * fc[2].count
                        + 20 * fc[3].count + 20 * fc[4].count), fc[1].total)

\* the quality_score below which both scripts exit with 1, in tenths
QualityThreshold == 500

\* validate_items_schema's strict checks on a valid item
StrictWarning(item) ==
  \/ item.title = "str: "
  \/ item.price = "obj:price0"
  \/ item.image_urls \in {"list:0", "absent"}

\* validate_items_output: ItemsOutput(**data) raises on an invalid item,
\* before metadata_file_ref and the metrics are set
validate_items_output(doc, is_strict) ==
  IF \E i \in 1..Len(doc.items) : ~ SchemaValid(doc.items[i])
  THEN [NoItemsReport EXCEPT !.errors = <<"Validation error">>]
  ELSE LET warned == is_strict /\ \E i \in 1..Len(doc.items) : StrictWarning(doc.items[i])
           fc == vo_calculate_field_completeness(doc.items)
       IN  [ schema_passed |-> ~ warned,
             errors |-> IF warned THEN <<"strict warning">> ELSE << >>,
             metadata_file_ref |-> doc.metadata_file,
             field_completeness |-> fc,
             quality_score |-> calculate_quality_score(fc) ]

\* validate_metadata_output on a schema-valid metadata file
validate_metadata_output(items_file_ref) ==
  [present |-> TRUE, schema_passed |-> TRUE, items_file_ref |-> items_file_ref]

\* check_cross_references
check_cross_references(ir, mr) ==
  (IF ir.metadata_file_ref \in {"absent", ""}
   THEN <<"Items file missing metadata_file reference">> ELSE << >>)
  \o (IF mr.items_file_ref \in {"absent", ""}
      THEN <<"Metadata file missing items_file reference">> ELSE << >>)
  \o (IF ir.metadata_file_ref \notin {"absent", ""}
         /\ ir.metadata_file_ref # PathName(MetadataPath)
      THEN <<"Items file references another metadata file">> ELSE << >>)
  \o (IF mr.items_file_ref \notin {"absent", ""}
         /\ mr.items_file_ref # PathName(ItemsPath)
      THEN <<"Metadata file references another items file">> ELSE << >>)

\* generate_quality_report; validate_items_schema counts the invalid items
generate_quality_report(items) ==
  LET fc == hook_calculate_field_completeness(items)
  IN  [ field_completeness |-> fc,
        quality_score |-> calculate_quality_score(fc),
        error_count |-> Cardinality({i \in 1..Len(items) : ~ SchemaValid(items[i])}) ]

InitOutput ==
  /\ vo_pc = "start"
  /\ pep701 \in BOOLEAN
  /\ vo_args \in [json : BOOLEAN, strict : BOOLEAN, metadata : BOOLEAN]
  /\ \E items \in OutputItemLists, mref \in MetadataFileRefs, iref \in ItemsFileRefs :
       vo_files = [ items |-> [metadata_file |-> mref, items |-> items],
                    items_file_ref |-> iref ]
  /\ items_report = NoItemsReport
  /\ metadata_report = NoMetadataReport
  /\ cross_ref_errors = << >>
  /\ vo_exit = NotExited
  /\ hook_pc = "start"
  /\ hook_report = NoHookReport
  /\ hook_exit = NotExited
  /\ IdleBut({"output"})

\* python validate_output.py: the module nests quotes of the enclosing kind
\* inside f-string replacement fields (lines 310, 361), which compiles only
\* on an interpreter with PEP 701 (3.12 and later); otherwise the run ends
\* with SyntaxError and exit status 1 before main is entered
VOCompile ==
  /\ vo_pc = "start"
  /\ IF pep701
     THEN /\ vo_pc' = "main"
          /\ UNCHANGED vo_exit
     ELSE /\ vo_pc' = "exited"
          /\ vo_exit' = 1
  /\ UNCHANGED <<pep701, vo_args, vo_files, items_report, metadata_report,
                 cross_ref_errors, hook_pc, hook_report, hook_exit,
                 qa_vars, scraper_vars, scroll_vars, investigation_vars>>

\* main: items_report = validate_items_output(...); metadata_report =
\* validate_metadata_output(...) if --metadata was given
ValidateFiles ==
  /\ vo_pc = "main"
  /\ items_report' = validate_items_output(vo_files.items, vo_args.strict)
  /\ metadata_report' =
       IF vo_args.metadata THEN validate_metadata_output(vo_files.items_file_ref)
       ELSE NoMetadataReport
  /\ vo_pc' = "validated"
  /\ UNCHANGED <<pep701, vo_args, vo_files, cross_ref_errors, vo_exit,
                 hook_pc, hook_report, hook_exit,
                 qa_vars, scraper_vars, scroll_vars, investigation_vars>>

\* main: print the JSON of the two reports, or print_validation_report,
\* which alone calls check_cross_references and prints what it returns
OutputResults ==
  /\ vo_pc = "validated"
  /\ cross_ref_errors' =
       IF ~ vo_args.json /\ metadata_report.present
       THEN check_cross_references(items_report, metadata_report)
       ELSE cross_ref_errors
  /\ vo_pc' = "printed"
  /\ UNCHANGED <<pep701, vo_args, vo_files, items_report, metadata_report,
                 vo_exit, hook_pc, hook_report, hook_exit,
                 qa_vars, scraper_vars, scroll_vars, investigation_vars>>

\* main: the exit code
VOExit ==
  /\ vo_pc = "printed"
  /\ LET items_passed == items_report.schema_passed
         metadata_passed ==
           IF metadata_report.present THEN metadata_report.schema_passed ELSE TRUE
     IN  vo_exit' =
           IF ~ items_passed \/ ~ metadata_passed THEN 1
           ELSE IF items_report.quality_score < QualityThreshold THEN 1
           ELSE 0
  /\ vo_pc' = "exited"
  /\ UNCHANGED <<pep701, vo_args, vo_files, items_report, metadata_report,
                 cross_ref_errors, hook_pc, hook_report, hook_exit,
                 qa_vars, scraper_vars, scroll_vars, investigation_vars>>

\* post_scraping_hook main: report = generate_quality_report(items, ...)
HookReport ==
  /\ hook_pc = "start"
  /\ hook_report' = generate_quality_report(vo_files.items.items)
  /\ hook_pc' = "reported"
  /\ UNCHANGED <<vo_pc, pep701, vo_args, vo_files, items_report, metadata_report,
                 cross_ref_errors, vo_exit, hook_exit,
                 qa_vars, scraper_vars, scroll_vars, investigation_vars>>

\* post_scraping_hook main: the exit code
HookExit ==
  /\ hook_pc = "reported"
  /\ hook_exit' =
       IF hook_report.quality_score < QualityThreshold THEN 1
       ELSE IF hook_report.error_count > 0 THEN 1
       ELSE 0
  /\ hook_pc' = "exited"
  /\ UNCHANGED <<vo_pc, pep701, vo_args, vo_files, items_report, metadata_report,
                 cross_ref_errors, vo_exit, hook_report,
                 qa_vars, scraper_vars, scroll_vars, investigation_vars>>

NextOutput ==
  \/ VOCompile
  \/ ValidateFiles
  \/ OutputResults
  \/ VOExit
  \/ HookReport
  \/ HookExit

SpecOutput == InitOutput /\ [][NextOutput]_vars

\* C28: the two calculate_field_completeness implementations return the same
\* four percentages for every list of schema-valid items, so both scripts
\* derive the same quality score and the same below-50 decision from the
\* same items file (on an interpreter that compiles validate_output.py).
C28_AsStated ==
  ( /\ pep701
    /\ vo_pc \in {"validated", "printed", "exited"}
    /\ hook_pc \in {"reported", "exited"}
    /\ \A i \in 1..Len(vo_files.items.items) : SchemaValid(vo_files.items.items[i]) )
    => /\ items_report.field_completeness = hook_report.field_completeness
       /\ items_report.quality_score = hook_report.quality_score
       /\ (items_report.quality_score < QualityThreshold)
            <=> (hook_report.quality_score < QualityThreshold)

\* C29: run with a metadata file, validate_output exits with code 0 only if
\* the items file and the metadata file reference each other's actual file
\* names, in JSON output mode as well as in text mode.
C29_AsStated ==
  (vo_pc = "exited" /\ vo_args.metadata /\ vo_exit = 0)
    => /\ vo_files.items.metadata_file = PathName(MetadataPath)
       /\ vo_files.items_file_ref = PathName(ItemsPath)

====
